---- MODULE Spec2Model ----
(***************************************************************************)
(* Tip allocation engine of debit-tips-calculator: the modular pipeline    *)
(* (clockData.js, transactions.js, tipAllocation.js, index.js).            *)
(*                                                                         *)
(* Conventions                                                             *)
(*  - a JavaScript string is a sequence of one-character strings, so that  *)
(*    includes() and toLowerCase() are computed, not assumed;              *)
(*  - a Date is a number of minutes since 2025-02-18T00:00 (clock and      *)
(*    transaction data carry no finer resolution that matters here);       *)
(*  - a money amount is an integer number of Units, 1 cent = Cent units,   *)
(*    Cent chosen so that every division the code performs within the      *)
(*    bounds is exact (the code uses IEEE doubles and a 0.01 tolerance);   *)
(*  - a nullable value is a sequence of length 0 (null) or 1.              *)
(***************************************************************************)
EXTENDS Integers, Sequences, FiniteSets, TLC

VARIABLES
    pc,                  \* position of the run that the specification models
    intervals,           \* interval records (output of expandToIntervals)
    tipsBySlot,          \* transaction slots (output of processTransactions)
    bohPctOverride,      \* --boh-pct, null or a percentage
    staffMap,            \* countStaffPerSlot result
    tipPools,            \* computeTipPools result
    individualTipShares, \* calculateIndividualTipShares result
    unallocatedTips,     \* identifyUnallocatedTips result
    redistribution,      \* redistributeUnallocatedTips result
    finalTotals,         \* aggregateFinalTips result
    written,             \* output files written so far
    outcome,             \* "running", "completed" or "failed"
    cleanedClock,        \* shift rows (output of processClockData)
    intervalArg,         \* the intervalMinutes argument a caller passes
    call,                \* which call of expandToIntervals is running
    intervalMinutes,     \* expandToIntervals: the parameter, then the value used
    rowIdx,              \* expandToIntervals: index of the row being expanded
    slotStart,           \* expandToIntervals: loop variable, null outside the loop
    expanded,            \* expandToIntervals: the list being built
    firstResult,         \* what the first call returned
    transactions,        \* raw transaction rows
    convertTz,           \* processTransactions: convert the time zone or not
    args,                \* index.js: the parsed command line (minimist result)
    mergedClockData,     \* cli_newVersion: groupAndMergeClockData result
    fullDayIntervals,    \* cli_newVersion: the calendar intervals of the clock dates
    intervalTipSummary,  \* cli_newVersion: generateIntervalTipSummary result
    intervalPresence,    \* cli_newVersion: generateIntervalEmployeePresence result
    allocations,         \* cli_newVersion: allocateTips(...).allocations
    orphaned,            \* cli_newVersion: allocateTips(...).orphaned
    dtIn,                \* utils.floorToInterval: the timestamp dt passed, in seconds
    floored,             \* utils.floorToInterval: what it returned
    dateArg,             \* generateDayIntervals: the dateStr passed
    round,               \* generateDayIntervals: the loop variable i
    clockData,           \* processClockData: the parsed rows of the clock CSV
    employeeArg,         \* categorizeEmployee: the employee record passed
    categories           \* what the two categorizeEmployee functions returned

pipelineVars == <<intervals, bohPctOverride, staffMap, tipPools,
                  individualTipShares, unallocatedTips, redistribution,
                  finalTotals, written, outcome>>
expandVars == <<cleanedClock, intervalArg, call, intervalMinutes, rowIdx,
                slotStart, expanded, firstResult>>
txnVars == <<transactions, convertTz>>
configVars == <<args>>
\* the variables of the runs modelled further down
newVersionVars == <<mergedClockData, fullDayIntervals, intervalTipSummary,
                    intervalPresence, allocations, orphaned>>
\* the variables of the functions called on their own
unitVars == <<dtIn, floored, dateArg, round, clockData, employeeArg,
              categories>>
otherVars == <<configVars, newVersionVars, unitVars>>

vars == <<pc, tipsBySlot, pipelineVars, expandVars, txnVars, otherVars>>

----------------------------------------------------------------------------
(* Bounds and units *)

MaxIntervals == 3
MaxTipSlots == 2

Cent == 100 * 60
Tolerance == Cent           \* 0.01 currency units

Null == <<>>
Some(x) == <<x>>

\* the variables of the parts a specification does not exercise
PipelineIdle ==
    /\ intervals = <<>> /\ bohPctOverride = Null /\ staffMap = <<>>
    /\ tipPools = <<>> /\ individualTipShares = <<>> /\ unallocatedTips = <<>>
    /\ redistribution = <<>> /\ finalTotals = <<>> /\ written = {}
    /\ outcome = "running"
ExpandIdle ==
    /\ cleanedClock = <<>> /\ intervalArg = Null /\ call = 0
    /\ intervalMinutes = Null /\ rowIdx = 0 /\ slotStart = Null
    /\ expanded = <<>> /\ firstResult = <<>>
TxnIdle ==
    /\ transactions = <<>> /\ convertTz = FALSE
ConfigIdle ==
    /\ args = Null
NewVersionIdle ==
    /\ mergedClockData = <<>> /\ fullDayIntervals = <<>>
    /\ intervalTipSummary = <<>> /\ intervalPresence = <<>>
    /\ allocations = <<>> /\ orphaned = <<>>
UnitIdle ==
    /\ dtIn = Null /\ floored = Null
    /\ dateArg = Null /\ round = 0
    /\ clockData = <<>>
    /\ employeeArg = Null /\ categories = Null
OtherIdle ==
    /\ ConfigIdle
    /\ NewVersionIdle
    /\ UnitIdle

----------------------------------------------------------------------------
(* Generic helpers *)

RECURSIVE SumSeq(_)
SumSeq(s) == IF s = <<>> THEN 0 ELSE Head(s) + SumSeq(Tail(s))

RECURSIVE Dedup(_)
\* first occurrences, in order (insertion order of a Set / of object keys)
Dedup(s) ==
    IF s = <<>> THEN <<>>
    ELSE LET r == Dedup(SubSeq(s, 1, Len(s) - 1))
             x == s[Len(s)]
         IN IF \E i \in DOMAIN r : r[i] = x THEN r ELSE Append(r, x)

Abs(x) == IF x < 0 THEN -x ELSE x

MapSeq(s, Op(_)) == [i \in DOMAIN s |-> Op(s[i])]

----------------------------------------------------------------------------
(* JavaScript strings *)

UpperChars == <<"A","B","C","D","E","F","G","H","I","J","K","L","M",
                "N","O","P","Q","R","S","T","U","V","W","X","Y","Z">>
LowerChars == <<"a","b","c","d","e","f","g","h","i","j","k","l","m",
                "n","o","p","q","r","s","t","u","v","w","x","y","z">>
DigitChars == <<"0","1","2","3","4","5","6","7","8","9">>

IsUpper(c) == \E i \in DOMAIN UpperChars : UpperChars[i] = c
IsWordChar(c) ==
    \/ IsUpper(c)
    \/ \E i \in DOMAIN LowerChars : LowerChars[i] = c
    \/ \E i \in DOMAIN DigitChars : DigitChars[i] = c
    \/ c = "_"

toLowerCase(s) ==
    [i \in DOMAIN s |->
        IF IsUpper(s[i])
        THEN LowerChars[CHOOSE k \in DOMAIN UpperChars : UpperChars[k] = s[i]]
        ELSE s[i]]

includes(s, p) ==
    \E i \in 0..(Len(s) - Len(p)) : SubSeq(s, i + 1, i + Len(p)) = p

\* /\bC[A-Z]{2}\b/.test(s)
MatchesCSuite(s) ==
    \E i \in 1..(Len(s) - 2) :
        /\ s[i] = "C" /\ IsUpper(s[i + 1]) /\ IsUpper(s[i + 2])
        /\ (i = 1 \/ ~IsWordChar(s[i - 1]))
        /\ (i + 2 = Len(s) \/ ~IsWordChar(s[i + 3]))

----------------------------------------------------------------------------
(* employeeClassification.js *)

categorizeByTitle(employeeTitle) ==
    IF employeeTitle = <<>> THEN "null"
    ELSE IF \/ includes(employeeTitle, <<"C","E","O">>)
            \/ includes(employeeTitle, <<"C","O","O">>)
            \/ includes(employeeTitle,
                 <<"C","h","i","e","f"," ","O","p","e","r","a","t","i","o","n","s",
                   " ","O","f","f","i","c","e","r">>)
            \/ MatchesCSuite(employeeTitle)
         THEN "EXEC"
         ELSE "null"

categorizeDepartment(department) ==
    IF department = <<>> THEN "FOH"
    ELSE LET deptLower == toLowerCase(department) IN
         IF \/ includes(deptLower, <<"b","o","h">>)
            \/ includes(deptLower, <<"b","a","c","k"," ","o","f"," ","h","o","u","s","e">>)
         THEN "BOH"
         ELSE IF \/ includes(deptLower, <<"e","x","e","c">>)
                 \/ includes(deptLower, <<"m","a","n","a","g","e","r">>)
                 \/ includes(deptLower, <<"m","a","n","a","g","e","m","e","n","t">>)
                 \/ includes(deptLower, <<"g","m">>)
         THEN "EXEC"
         ELSE IF includes(deptLower, <<"f","r","o","n","t">>)
         THEN "FOH"
         ELSE "FOH"

categorizeEmployee(employee) ==
    IF categorizeByTitle(employee.Employee) = "EXEC"
    THEN "EXEC"
    ELSE categorizeDepartment(employee.Department)

----------------------------------------------------------------------------
(* tipAllocation.js, the variant with the configurable BOH ratio *)

\* `${rec.Date}|${rec.TimeSlotStart.toISOString()}`
SlotKey(rec) == <<rec.Date, rec.TimeSlotStart>>

NoStaff == [FOH |-> 0, BOH |-> 0, EXEC |-> 0, total |-> 0]

CountCategory(recs, key, category) ==
    Cardinality({i \in DOMAIN recs :
                    SlotKey(recs[i]) = key /\ categorizeEmployee(recs[i]) = category})

countStaffPerSlot(recs) ==
    [key \in {SlotKey(recs[i]) : i \in DOMAIN recs} |->
        [FOH   |-> CountCategory(recs, key, "FOH"),
         BOH   |-> CountCategory(recs, key, "BOH"),
         EXEC  |-> CountCategory(recs, key, "EXEC"),
         total |-> CountCategory(recs, key, "FOH") + CountCategory(recs, key, "BOH")]]

\* variant: the --boh-pct override is dropped
BohPctIgnoringOverride(override) == 15

\* BOH_RATIO in percent; FOH_RATIO = 1 - BOH_RATIO
BohPct(override) == IF override # Null THEN override[1] ELSE 15

TotalStaffOf(FOHCount, BOHCount, ExecCount) == FOHCount + BOHCount + ExecCount

\* variant: the pools follow the ratio whoever is present
TipPoolOfStrictRatio(slot, staffs, override) ==
    LET key == SlotKey(slot)
        staff == IF key \in DOMAIN staffs THEN staffs[key] ELSE NoStaff
    IN [Date |-> slot.Date, TimeSlotStart |-> slot.TimeSlotStart,
        AmtTip |-> slot.AmtTip, FOHCount |-> staff.FOH, BOHCount |-> staff.BOH,
        ExecCount |-> staff.EXEC,
        TotalStaff |-> TotalStaffOf(staff.FOH, staff.BOH, staff.EXEC),
        FOHTipPool |-> (slot.AmtTip * (100 - BohPct(override))) \div 100,
        BOHTipPool |-> (slot.AmtTip * BohPct(override)) \div 100]

TipPoolOf(slot, staffs, override) ==
    LET key == SlotKey(slot)
        staff == IF key \in DOMAIN staffs THEN staffs[key] ELSE NoStaff
        FOHCount == staff.FOH
        BOHCount == staff.BOH
        ExecCount == staff.EXEC
        TotalStaff == TotalStaffOf(FOHCount, BOHCount, ExecCount)
        both == FOHCount > 0 /\ BOHCount > 0
        FOHTipPool ==
            IF TotalStaff = 0 THEN 0
            ELSE IF both THEN (slot.AmtTip * (100 - BohPct(override))) \div 100
            ELSE IF FOHCount > 0 /\ BOHCount = 0 THEN slot.AmtTip
            ELSE 0
        BOHTipPool ==
            IF TotalStaff = 0 THEN 0
            ELSE IF both THEN (slot.AmtTip * BohPct(override)) \div 100
            ELSE IF FOHCount > 0 /\ BOHCount = 0 THEN 0
            ELSE IF BOHCount > 0 /\ FOHCount = 0 THEN slot.AmtTip
            ELSE 0
    IN [Date |-> slot.Date, TimeSlotStart |-> slot.TimeSlotStart,
        AmtTip |-> slot.AmtTip, FOHCount |-> FOHCount, BOHCount |-> BOHCount,
        ExecCount |-> ExecCount, TotalStaff |-> TotalStaff,
        FOHTipPool |-> FOHTipPool, BOHTipPool |-> BOHTipPool]

computeTipPools(slots, staffs, override) ==
    [i \in DOMAIN slots |-> TipPoolOf(slots[i], staffs, override)]

\* tipPoolMap[key] = pool : the last pool of a key wins
PoolFor(pools, key) ==
    LET idx == {i \in DOMAIN pools : SlotKey(pools[i]) = key}
    IN IF idx = {} THEN Null
       ELSE Some(pools[CHOOSE i \in idx : \A j \in idx : j <= i])

\* variant: the role is read from the department alone
ShareOfByDepartment(rec, pools) ==
    LET pool == PoolFor(pools, SlotKey(rec))
        category == categorizeDepartment(rec.Department)
    IN IF pool = Null THEN 0
       ELSE IF category = "FOH" /\ pool[1].FOHCount > 0
            THEN pool[1].FOHTipPool \div pool[1].FOHCount
       ELSE IF category = "BOH" /\ pool[1].BOHCount > 0
            THEN pool[1].BOHTipPool \div pool[1].BOHCount
       ELSE 0

ShareOf(rec, pools) ==
    LET pool == PoolFor(pools, SlotKey(rec))
        category == categorizeEmployee(rec)
    IN IF pool = Null THEN 0
       ELSE IF category = "FOH" /\ pool[1].FOHCount > 0
            THEN pool[1].FOHTipPool \div pool[1].FOHCount
       ELSE IF category = "BOH" /\ pool[1].BOHCount > 0
            THEN pool[1].BOHTipPool \div pool[1].BOHCount
       ELSE 0

calculateIndividualTipShares(recs, pools) ==
    [i \in DOMAIN recs |->
        [Employee |-> recs[i].Employee, Department |-> recs[i].Department,
         Date |-> recs[i].Date, TimeSlotStart |-> recs[i].TimeSlotStart,
         TimeSlotEnd |-> recs[i].TimeSlotEnd,
         IndividualTipShare |-> ShareOf(recs[i], pools)]]

Orphaned(r) ==
    IF r.TotalStaff = 0 THEN r.AmtTip
    ELSE IF r.AmtTip > 0
         THEN (IF r.FOHCount = 0 THEN r.FOHTipPool ELSE 0)
              + (IF r.BOHCount = 0 THEN r.BOHTipPool ELSE 0)
         ELSE 0

identifyUnallocatedTips(pools) ==
    LET kept == SelectSeq(pools, LAMBDA r : Orphaned(r) > 0)
    IN [i \in DOMAIN kept |->
          [Date |-> kept[i].Date, TimeSlotStart |-> kept[i].TimeSlotStart,
           UnallocatedTip |-> Orphaned(kept[i])]]

\* unallocByDay[date]
UnallocOfDay(unalloc, date) ==
    SumSeq([i \in DOMAIN unalloc |->
              IF unalloc[i].Date = date THEN unalloc[i].UnallocatedTip ELSE 0])

\* variant: one entry per interval record instead of per distinct employee
EmployeesOfDayPerRecord(recs, date) ==
    MapSeq(SelectSeq(recs, LAMBDA r : r.Date = date), LAMBDA r : r.Employee)

\* Array.from(employeesByDay[date] || [])
EmployeesOfDay(recs, date) ==
    Dedup(MapSeq(SelectSeq(recs, LAMBDA r : r.Date = date), LAMBDA r : r.Employee))

RedistributionOfDay(unalloc, recs, date) ==
    LET totalUnalloc == UnallocOfDay(unalloc, date)
        employees == EmployeesOfDay(recs, date)
        share == IF Len(employees) > 0 THEN totalUnalloc \div Len(employees) ELSE 0
    IN [i \in DOMAIN employees |->
          [Date |-> date, Employee |-> employees[i], UnallocatedTipShare |-> share]]

RECURSIVE ConcatDays(_, _, _)
ConcatDays(dates, unalloc, recs) ==
    IF dates = <<>> THEN <<>>
    ELSE RedistributionOfDay(unalloc, recs, Head(dates))
         \o ConcatDays(Tail(dates), unalloc, recs)

redistributeUnallocatedTips(unalloc, recs) ==
    ConcatDays(Dedup(MapSeq(unalloc, LAMBDA r : r.Date)), unalloc, recs)

AllocatedOf(shares, emp) ==
    SumSeq([i \in DOMAIN shares |->
              IF shares[i].Employee = emp THEN shares[i].IndividualTipShare ELSE 0])

UnallocatedOf(redist, emp) ==
    SumSeq([i \in DOMAIN redist |->
              IF redist[i].Employee = emp THEN redist[i].UnallocatedTipShare ELSE 0])

\* variant: only employees that have an individual share get a row
aggregateFinalTipsSharesOnly(shares, redist) ==
    LET emps == Dedup(MapSeq(shares, LAMBDA r : r.Employee))
    IN [i \in DOMAIN emps |->
          [Employee |-> emps[i],
           AllocatedTips |-> AllocatedOf(shares, emps[i]),
           UnallocatedTips |-> UnallocatedOf(redist, emps[i]),
           TotalTips |-> AllocatedOf(shares, emps[i]) + UnallocatedOf(redist, emps[i])]]

aggregateFinalTips(shares, redist) ==
    LET emps == Dedup(MapSeq(shares, LAMBDA r : r.Employee)
                      \o MapSeq(redist, LAMBDA r : r.Employee))
    IN [i \in DOMAIN emps |->
          [Employee |-> emps[i],
           AllocatedTips |-> AllocatedOf(shares, emps[i]),
           UnallocatedTips |-> UnallocatedOf(redist, emps[i]),
           TotalTips |-> AllocatedOf(shares, emps[i]) + UnallocatedOf(redist, emps[i])]]


----------------------------------------------------------------------------
(* index.js main(), Steps 3 to 8, on the configurable-ratio tipAllocation.js *)

\* Inputs: who can appear in an interval record, and the slots of two dates
Roster ==
    << [Employee |-> <<"A","l">>,
        Department |-> <<"F","r","o","n","t"," ","o","f"," ","H","o","u","s","e">>],
       [Employee |-> <<"B","o">>, Department |-> <<"B","a","r">>],
       [Employee |-> <<"D","i">>, Department |-> <<"B","O","H">>],
       [Employee |-> <<"C","y"," ","C","F","O">>,
        Department |-> <<"F","r","o","n","t"," ","o","f"," ","H","o","u","s","e">>],
       [Employee |-> <<"G","u","s">>,
        Department |-> <<"G","e","n","e","r","a","l"," ","M","a","n","a","g","e","r">>] >>

IntervalMinutesUsed == 15

SlotList ==
    << [Date |-> "2025-02-18", TimeSlotStart |-> 600,  AmtTip |-> 2000 * Cent],
       [Date |-> "2025-02-18", TimeSlotStart |-> 615,  AmtTip |-> 735 * Cent],
       [Date |-> "2025-02-19", TimeSlotStart |-> 2040, AmtTip |-> 1000 * Cent] >>

BohPctChoices == {Null, Some(0), Some(40), Some(100)}

NumRecords == Len(Roster) * Len(SlotList)

\* the n-th possible interval record, n in 0..NumRecords-1
RecordAt(n) ==
    LET who == Roster[(n \div Len(SlotList)) + 1]
        slot == SlotList[(n % Len(SlotList)) + 1]
    IN [Employee |-> who.Employee, Department |-> who.Department,
        Date |-> slot.Date, TimeSlotStart |-> slot.TimeSlotStart,
        TimeSlotEnd |-> slot.TimeSlotStart + IntervalMinutesUsed]

\* interval lists up to reordering (a record may repeat)
IntervalLists ==
    UNION {
        { [i \in 1..n |-> RecordAt(f[i])] :
            f \in {g \in [1..n -> 0..(NumRecords - 1)] :
                      \A i \in 1..(n - 1) : g[i] <= g[i + 1]} }
        : n \in 0..MaxIntervals }

SeqOfSet(S) ==
    LET RECURSIVE Build(_, _)
        Build(k, acc) ==
            IF k > Len(SlotList) THEN acc
            ELSE Build(k + 1, IF k \in S THEN Append(acc, SlotList[k]) ELSE acc)
    IN Build(1, <<>>)

\* tipsBySlot has one record per key (processTransactions groups by key)
TipLists ==
    { SeqOfSet(S) : S \in {T \in SUBSET (DOMAIN SlotList) : Cardinality(T) <= MaxTipSlots} }

PipelineInit ==
    /\ pc = "step3_count"
    /\ intervals \in IntervalLists
    /\ tipsBySlot \in TipLists
    /\ bohPctOverride \in BohPctChoices
    /\ staffMap = <<>>
    /\ tipPools = <<>>
    /\ individualTipShares = <<>>
    /\ unallocatedTips = <<>>
    /\ redistribution = <<>>
    /\ finalTotals = <<>>
    /\ written = {}
    /\ outcome = "running"
    /\ ExpandIdle
    /\ TxnIdle
    /\ OtherIdle

inputVars == <<intervals, tipsBySlot, bohPctOverride, expandVars, txnVars, otherVars>>

Step3CountStaff ==
    /\ pc = "step3_count"
    /\ staffMap' = countStaffPerSlot(intervals)
    /\ pc' = "step3_pools"
    /\ UNCHANGED <<inputVars, tipPools, individualTipShares, unallocatedTips,
                   redistribution, finalTotals, written, outcome>>

Step3ComputeTipPools ==
    /\ pc = "step3_pools"
    /\ tipPools' = computeTipPools(tipsBySlot, staffMap, bohPctOverride)
    /\ written' = written \cup {"step4_tip_pools.csv"}
    /\ pc' = "step4"
    /\ UNCHANGED <<inputVars, staffMap, individualTipShares, unallocatedTips,
                   redistribution, finalTotals, outcome>>

Step4IndividualShares ==
    /\ pc = "step4"
    /\ individualTipShares' = calculateIndividualTipShares(intervals, tipPools)
    /\ written' = written \cup {"step5_individual_tip_shares.csv"}
    /\ pc' = "step5"
    /\ UNCHANGED <<inputVars, staffMap, tipPools, unallocatedTips,
                   redistribution, finalTotals, outcome>>

Step5IdentifyUnallocated ==
    /\ pc = "step5"
    /\ unallocatedTips' = identifyUnallocatedTips(tipPools)
    /\ written' = written \cup {"step6_unallocated_tips.csv"}
    /\ pc' = "step6"
    /\ UNCHANGED <<inputVars, staffMap, tipPools, individualTipShares,
                   redistribution, finalTotals, outcome>>

Step6Redistribute ==
    /\ pc = "step6"
    /\ redistribution' = redistributeUnallocatedTips(unallocatedTips, intervals)
    /\ written' = written \cup {"step7_unallocated_tip_distribution.csv"}
    /\ pc' = "step7"
    /\ UNCHANGED <<inputVars, staffMap, tipPools, individualTipShares,
                   unallocatedTips, finalTotals, outcome>>

Step7Aggregate ==
    /\ pc = "step7"
    /\ finalTotals' = aggregateFinalTips(individualTipShares, redistribution)
    /\ written' = written \cup {"step8_final_employee_totals.csv",
                                "diagnostic_timeslot_analysis.csv"}
    /\ pc' = "step8"
    /\ UNCHANGED <<inputVars, staffMap, tipPools, individualTipShares,
                   unallocatedTips, redistribution, outcome>>

finalSum == SumSeq(MapSeq(finalTotals, LAMBDA r : r.TotalTips))
txnTotal == SumSeq(MapSeq(tipsBySlot, LAMBDA r : r.AmtTip))

SanityCheckPasses == Abs(finalSum - txnTotal) < Tolerance

\* Step 8 only logs "Passed" or "FAILED"; main() then returns normally
SanityOutcome(passes) == "completed"

Step8SanityCheck ==
    /\ pc = "step8"
    /\ outcome' = SanityOutcome(SanityCheckPasses)
    /\ pc' = "done"
    /\ UNCHANGED <<inputVars, staffMap, tipPools, individualTipShares,
                   unallocatedTips, redistribution, finalTotals, written>>

PipelineNext ==
    \/ Step3CountStaff
    \/ Step3ComputeTipPools
    \/ Step4IndividualShares
    \/ Step5IdentifyUnallocated
    \/ Step6Redistribute
    \/ Step7Aggregate
    \/ Step8SanityCheck

Spec == PipelineInit /\ [][PipelineNext]_vars


----------------------------------------------------------------------------
(* Claims about the configurable-ratio pipeline *)

\* the step has just run; no later step assigns its result again
StaffCounted == pc = "step3_pools"
SharesDone == pc = "step5"
UnallocatedDone == pc = "step6"
RedistributionDone == pc = "step7"

\* every date that has a transaction slot has at least one interval record
EveryTipDateStaffed ==
    \A i \in DOMAIN tipsBySlot : \E j \in DOMAIN intervals :
        intervals[j].Date = tipsBySlot[i].Date

EntriesFor(r) ==
    {i \in DOMAIN unallocatedTips : SlotKey(unallocatedTips[i]) = SlotKey(r)}

SharesIn(r, category) ==
    {i \in DOMAIN individualTipShares :
        /\ SlotKey(individualTipShares[i]) = SlotKey(r)
        /\ categorizeEmployee(individualTipShares[i]) = category}

\* C1: conservation. Whenever every date with a slot has an interval record,
\* the final TotalTips sum to the slots' AmtTip within 0.01 (Step 8 passes).
C1_Conservation ==
    (pc = "done" /\ EveryTipDateStaffed) => SanityCheckPasses

\* C2: single-role fallback. A slot staffed by FOH only gives FOHTipPool = T,
\* BOHTipPool = 0, T/n to each FOH record and no unallocated entry; the same
\* with the roles exchanged.
C2_SingleRoleFallback ==
    UnallocatedDone =>
        \A p \in DOMAIN tipPools :
            LET r == tipPools[p] IN
            /\ (r.FOHCount > 0 /\ r.BOHCount = 0) =>
                  /\ r.FOHTipPool = r.AmtTip /\ r.BOHTipPool = 0
                  /\ \A i \in SharesIn(r, "FOH") :
                        individualTipShares[i].IndividualTipShare * r.FOHCount = r.AmtTip
                  /\ EntriesFor(r) = {}
            /\ (r.BOHCount > 0 /\ r.FOHCount = 0) =>
                  /\ r.BOHTipPool = r.AmtTip /\ r.FOHTipPool = 0
                  /\ \A i \in SharesIn(r, "BOH") :
                        individualTipShares[i].IndividualTipShare * r.BOHCount = r.AmtTip
                  /\ EntriesFor(r) = {}

C2_Witness ==
    /\ pc = "done"
    /\ \E p \in DOMAIN tipPools :
          /\ tipPools[p].FOHCount = 2 /\ tipPools[p].BOHCount = 0
          /\ SharesIn(tipPools[p], "FOH") # {}
    /\ \E p \in DOMAIN tipPools :
          /\ tipPools[p].BOHCount = 1 /\ tipPools[p].FOHCount = 0
          /\ SharesIn(tipPools[p], "BOH") # {}

\* C3: ratio split. A slot staffed by both roles gives BOHTipPool = AmtTip * r
\* and FOHTipPool = AmtTip * (1 - r), r = override/100 or 0.15, whatever the
\* head counts; each record gets its pool divided by its role's head count.
C3_RatioSplit ==
    SharesDone =>
        \A p \in DOMAIN tipPools :
            LET r == tipPools[p]
                pct == IF bohPctOverride = Null THEN 15 ELSE bohPctOverride[1]
            IN (r.FOHCount > 0 /\ r.BOHCount > 0) =>
                  /\ r.BOHTipPool * 100 = r.AmtTip * pct
                  /\ r.FOHTipPool * 100 = r.AmtTip * (100 - pct)
                  /\ \A i \in SharesIn(r, "FOH") :
                        individualTipShares[i].IndividualTipShare * r.FOHCount = r.FOHTipPool
                  /\ \A i \in SharesIn(r, "BOH") :
                        individualTipShares[i].IndividualTipShare * r.BOHCount = r.BOHTipPool

C3_Witness ==
    /\ pc = "done"
    /\ bohPctOverride = Some(40)
    /\ \E p \in DOMAIN tipPools :
          /\ tipPools[p].FOHCount = 2 /\ tipPools[p].BOHCount = 1
          /\ tipPools[p].BOHTipPool = 800 * Cent

\* C4: no-presence orphaning. A slot with tip T > 0 and neither FOH nor BOH
\* present (EXEC does not count) yields exactly one unallocated entry, of T.
C4_NoPresenceOrphaning ==
    UnallocatedDone =>
        \A p \in DOMAIN tipPools :
            LET r == tipPools[p] IN
            (r.AmtTip > 0 /\ r.FOHCount = 0 /\ r.BOHCount = 0) =>
                /\ Cardinality(EntriesFor(r)) = 1
                /\ \A i \in EntriesFor(r) : unallocatedTips[i].UnallocatedTip = r.AmtTip

DatesUnallocated == {unallocatedTips[i].Date : i \in DOMAIN unallocatedTips}
EmployeeSetOn(date) ==
    {intervals[i].Employee : i \in {j \in DOMAIN intervals : intervals[j].Date = date}}
TotalUnallocatedOn(date) ==
    SumSeq([i \in DOMAIN unallocatedTips |->
              IF unallocatedTips[i].Date = date
              THEN unallocatedTips[i].UnallocatedTip ELSE 0])
RecordsOn(date) == {i \in DOMAIN redistribution : redistribution[i].Date = date}

\* C5: redistribution fairness. A date with unallocated total U and k >= 1
\* distinct employees gets exactly one record per employee, each of U/k.
C5_RedistributionFairness ==
    RedistributionDone =>
        \A date \in DatesUnallocated :
            LET k == Cardinality(EmployeeSetOn(date))
                U == TotalUnallocatedOn(date)
            IN k >= 1 =>
                /\ \A e \in EmployeeSetOn(date) :
                      Cardinality({i \in RecordsOn(date) :
                                      redistribution[i].Employee = e}) = 1
                /\ \A i \in RecordsOn(date) :
                      /\ redistribution[i].Employee \in EmployeeSetOn(date)
                      /\ redistribution[i].UnallocatedTipShare * k = U
                /\ SumSeq([i \in DOMAIN redistribution |->
                             IF redistribution[i].Date = date
                             THEN redistribution[i].UnallocatedTipShare ELSE 0]) = U

\* two employees on the date, one of them with two interval records, U > 0
C5_Witness ==
    /\ pc = "done"
    /\ \E date \in DatesUnallocated :
          /\ Cardinality(EmployeeSetOn(date)) = 2
          /\ Cardinality({j \in DOMAIN intervals : intervals[j].Date = date}) = 3
          /\ TotalUnallocatedOn(date) > 0
          /\ Cardinality(RecordsOn(date)) = 2

RecordsIn(key, cats) ==
    {i \in DOMAIN intervals :
        SlotKey(intervals[i]) = key /\ categorizeEmployee(intervals[i]) \in cats}

\* C9: executives are excluded from pooling. An EXEC record counts in EXEC
\* only, never in FOH or BOH, and its IndividualTipShare is 0.
C9_ExecExcluded ==
    /\ StaffCounted =>
          \A key \in DOMAIN staffMap :
              /\ staffMap[key].FOH + staffMap[key].BOH
                    = Cardinality(RecordsIn(key, {"FOH", "BOH"}))
              /\ staffMap[key].EXEC = Cardinality(RecordsIn(key, {"EXEC"}))
    /\ SharesDone =>
          \A i \in DOMAIN individualTipShares :
              categorizeEmployee(individualTipShares[i]) = "EXEC"
                  => individualTipShares[i].IndividualTipShare = 0

\* an executive shares a tipped slot with FOH and BOH staff
C9_Witness ==
    /\ pc = "done"
    /\ \E p \in DOMAIN tipPools :
          /\ tipPools[p].ExecCount = 1 /\ tipPools[p].FOHCount = 1
          /\ tipPools[p].BOHCount = 1 /\ tipPools[p].AmtTip > 0

\* C10: a failed conservation check is fatal. Whenever the Step 8 totals
\* differ by 0.01 or more, the run ends in a failure outcome.
C10_FailedCheckIsFatal ==
    (pc = "done" /\ ~SanityCheckPasses) => outcome = "failed"


----------------------------------------------------------------------------
(* clockData.js, expandToIntervals anchored at the clock-in time *)

MaxShifts == 2

\* JavaScript values that can arrive as intervalMinutes
Num(n) == [type |-> "number", kind |-> "finite", value |-> n]
NaN == [type |-> "number", kind |-> "NaN", value |-> 0]
Infinity == [type |-> "number", kind |-> "Infinity", value |-> 0]
Str(text) == [type |-> "string", kind |-> text, value |-> 0]
Undefined == [type |-> "undefined", kind |-> "undefined", value |-> 0]
JsNull == [type |-> "object", kind |-> "null", value |-> 0]

\* x < n, x > n and 1440 % x !== 0 on a value of type number
JsLess(x, n) == x.kind = "finite" /\ x.value < n
JsGreater(x, n) == x.kind = "Infinity" \/ (x.kind = "finite" /\ x.value > n)
DayRemainderNonZero(x) ==
    \/ x.kind # "finite"
    \/ x.value = 0
    \/ (1440 % Abs(x.value)) # 0

\* variant: the test that the interval divides the day is missing
IsInvalidIntervalNoDivisorTest(x) ==
    \/ x.type # "number"
    \/ JsLess(x, 2)
    \/ JsGreater(x, 60)

IsInvalidInterval(x) ==
    \/ x.type # "number"
    \/ JsLess(x, 2)
    \/ JsGreater(x, 60)
    \/ DayRemainderNonZero(x)

\* the default parameter value, then the validation
ValidatedInterval(arg) ==
    LET param == IF arg.type = "undefined" THEN Num(15) ELSE arg
    IN IF IsInvalidInterval(param) THEN 15 ELSE param.value

addMinutes(dt, minutes) == dt + minutes

\* variant: the loop runs while slotStart <= TimeOut
LoopContinuesInclusive(start, row) == start <= row.TimeOut

\* while (slotStart < row.TimeOut)
LoopContinues(start, row) == start < row.TimeOut

IntervalArgs ==
    {Num(n) : n \in {-15, 0, 1, 2, 7, 15, 16, 30, 60, 61, 120, 1440}}
    \cup {NaN, Infinity, Undefined, JsNull,
          Str(<<"f","o","o">>), Str(<<"3","0">>)}

ShiftStarts == {600, 607}
ShiftLengths == {0, 1, 30, 61}

\* the k-th row of a shift list: the employee alternates with k
ShiftRow(k, timeIn, len) ==
    [Employee |-> Roster[((k - 1) % Len(Roster)) + 1].Employee,
     Department |-> Roster[((k - 1) % Len(Roster)) + 1].Department,
     Date |-> "2025-02-18", TimeIn |-> timeIn, TimeOut |-> timeIn + len]

ShiftLists ==
    UNION {
        { [k \in 1..n |-> ShiftRow(k, f[k][1], f[k][2])] :
            f \in [1..n -> ShiftStarts \X ShiftLengths] }
        : n \in 0..MaxShifts }

ExpandInit ==
    /\ pc = "enter"
    /\ cleanedClock \in ShiftLists
    /\ intervalArg \in IntervalArgs
    /\ call = 1
    /\ intervalMinutes = Null
    /\ rowIdx = 0
    /\ slotStart = Null
    /\ expanded = <<>>
    /\ firstResult = <<>>
    /\ tipsBySlot = <<>>
    /\ PipelineIdle
    /\ TxnIdle
    /\ OtherIdle

expandFrame == <<tipsBySlot, pipelineVars, txnVars, otherVars, cleanedClock, intervalArg>>

\* the second call is expandToIntervals(cleanedClock, 15)
CurrentArg == IF call = 1 THEN intervalArg ELSE Num(15)

ExpandEnter ==
    /\ pc = "enter"
    /\ intervalMinutes' = Some(ValidatedInterval(CurrentArg))
    /\ expanded' = <<>>
    /\ rowIdx' = 1
    /\ pc' = "forEach"
    /\ UNCHANGED <<expandFrame, call, slotStart, firstResult>>

ExpandRowStart ==
    /\ pc = "forEach"
    /\ rowIdx <= Len(cleanedClock)
    /\ slotStart' = Some(cleanedClock[rowIdx].TimeIn)
    /\ pc' = "while"
    /\ UNCHANGED <<expandFrame, call, intervalMinutes, rowIdx, expanded, firstResult>>

ExpandLoopBody ==
    /\ pc = "while"
    /\ LoopContinues(slotStart[1], cleanedClock[rowIdx])
    /\ LET row == cleanedClock[rowIdx]
           slotEnd == addMinutes(slotStart[1], intervalMinutes[1])
       IN /\ expanded' = Append(expanded,
                [Employee |-> row.Employee, Department |-> row.Department,
                 Date |-> row.Date, TimeSlotStart |-> slotStart[1],
                 TimeSlotEnd |-> slotEnd])
          /\ slotStart' = Some(slotEnd)
    /\ UNCHANGED <<pc, expandFrame, call, intervalMinutes, rowIdx, firstResult>>

ExpandLoopExit ==
    /\ pc = "while"
    /\ ~LoopContinues(slotStart[1], cleanedClock[rowIdx])
    /\ slotStart' = Null
    /\ rowIdx' = rowIdx + 1
    /\ pc' = "forEach"
    /\ UNCHANGED <<expandFrame, call, intervalMinutes, expanded, firstResult>>

ExpandReturn ==
    /\ pc = "forEach"
    /\ rowIdx > Len(cleanedClock)
    /\ IF call = 1
       THEN /\ firstResult' = <<[list |-> expanded, used |-> intervalMinutes[1]]>>
            /\ call' = 2
            /\ pc' = "enter"
       ELSE /\ pc' = "done"
            /\ UNCHANGED <<firstResult, call>>
    /\ UNCHANGED <<expandFrame, intervalMinutes, rowIdx, slotStart, expanded>>

ExpandNext ==
    \/ ExpandEnter
    \/ ExpandRowStart
    \/ ExpandLoopBody
    \/ ExpandLoopExit
    \/ ExpandReturn

SpecExpand == ExpandInit /\ [][ExpandNext]_vars

(* Claims about expandToIntervals *)

ArgMustFallBack(x) ==
    \/ x.type # "number"
    \/ x.kind # "finite"
    \/ x.value < 2
    \/ x.value > 60
    \/ (x.value > 0 /\ 1440 % x.value # 0)

\* C6: interval validity fallback. An intervalMinutes that is not a number,
\* is below 2, above 60 or does not divide 1440 gives the same list as 15;
\* an integer of 2..60 that divides 1440 is used unchanged.
C6_IntervalFallback ==
    pc = "done" =>
        /\ ArgMustFallBack(intervalArg) => firstResult[1].list = expanded
        /\ (/\ intervalArg.type = "number" /\ intervalArg.kind = "finite"
            /\ intervalArg.value \in 2..60 /\ 1440 % intervalArg.value = 0)
              => /\ firstResult[1].used = intervalArg.value
                 /\ \A i \in DOMAIN firstResult[1].list :
                       firstResult[1].list[i].TimeSlotEnd
                         - firstResult[1].list[i].TimeSlotStart = intervalArg.value

\* 7 does not divide 1440: a 30-minute shift gives the two intervals of 15
C6_Witness ==
    /\ pc = "done"
    /\ intervalArg = Num(7)
    /\ Len(cleanedClock) = 1
    /\ cleanedClock[1].TimeOut - cleanedClock[1].TimeIn = 30
    /\ Len(firstResult[1].list) = 2
    /\ Len(expanded) = 2

CeilDiv(a, b) == (a + b - 1) \div b

ExpectedOfRow(row, I) ==
    LET n == IF row.TimeIn < row.TimeOut
             THEN CeilDiv(row.TimeOut - row.TimeIn, I) ELSE 0
    IN [j \in 1..n |->
          [Employee |-> row.Employee, Department |-> row.Department,
           Date |-> row.Date,
           TimeSlotStart |-> row.TimeIn + (j - 1) * I,
           TimeSlotEnd |-> row.TimeIn + j * I]]

RECURSIVE ExpectedIntervals(_, _)
ExpectedIntervals(rows, I) ==
    IF rows = <<>> THEN <<>>
    ELSE ExpectedOfRow(Head(rows), I) \o ExpectedIntervals(Tail(rows), I)

\* C7: full-interval credit. A shift with clockIn < clockOut yields exactly
\* ceil((clockOut - clockIn) / I) intervals, the j-th being
\* [clockIn + j*I, clockIn + (j+1)*I); the last one is full length. (A row
\* with clockIn >= clockOut contributes nothing, which locates each row's
\* intervals in the list.)
C7_FullIntervalCredit ==
    pc = "done" =>
        firstResult[1].list = ExpectedIntervals(cleanedClock, firstResult[1].used)

\* a 1-minute shift under 60-minute intervals and a 61-minute shift
C7_Witness ==
    /\ pc = "done"
    /\ firstResult[1].used = 60
    /\ Len(cleanedClock) = 2
    /\ cleanedClock[1].TimeOut - cleanedClock[1].TimeIn = 1
    /\ cleanedClock[2].TimeOut - cleanedClock[2].TimeIn = 61
    /\ Len(firstResult[1].list) = 3
    /\ firstResult[1].list[1].TimeSlotEnd = cleanedClock[1].TimeIn + 60


----------------------------------------------------------------------------
(* transactions.js, processTransactions *)

MaxTransactions == 3

DateStrings == <<"2025-02-18", "2025-02-19", "2025-02-20">>

\* utils.convertTimezone from America/Chicago to America/New_York: the wall
\* clock of the target zone is one hour ahead of the source zone's
ZoneOffsetMinutes == 60
convertTimezone(date) == date + ZoneOffsetMinutes

\* utils.createStandardInterval: the slot of the midnight-anchored grid that
\* contains the time, with the date of the slot's start
createStandardInterval(date, minutes) ==
    LET start == date - (date % minutes)
    IN [Date |-> DateStrings[(start \div 1440) + 1],
        TimeSlotStart |-> start, TimeSlotEnd |-> start + minutes]

\* variant: the comparison with 'yes' is case-sensitive
IsApprovedCaseSensitive(r) ==
    r.Approved # Null /\ r.Approved[1] # <<>> /\ r.Approved[1] = <<"y","e","s">>

\* r.Approved && r.Approved.toLowerCase() === 'yes'
IsApproved(r) ==
    r.Approved # Null /\ r.Approved[1] # <<>>
        /\ toLowerCase(r.Approved[1]) = <<"y","e","s">>

ApprovedTxn(r, minutes, convert) ==
    LET transDT == IF convert THEN convertTimezone(r.TransDateTime)
                   ELSE r.TransDateTime
        standardInterval == createStandardInterval(transDT, minutes)
    IN [TransDateTime |-> transDT, AmtTip |-> r.AmtTip,
        TimeSlotStart |-> standardInterval.TimeSlotStart,
        Date |-> standardInterval.Date]

processTransactions(rows, minutes, convert) ==
    LET approved == MapSeq(SelectSeq(rows, IsApproved),
                           LAMBDA r : ApprovedTxn(r, minutes, convert))
        keys == Dedup(MapSeq(approved, SlotKey))
    IN [k \in DOMAIN keys |->
          [Date |-> keys[k][1], TimeSlotStart |-> keys[k][2],
           AmtTip |-> SumSeq([i \in DOMAIN approved |->
                                IF SlotKey(approved[i]) = keys[k]
                                THEN approved[i].AmtTip ELSE 0])]]

ApprovedValues ==
    {Null, Some(<<>>), Some(<<"y","e","s">>), Some(<<"Y","e","s">>),
     Some(<<"Y","E","S">>), Some(<<"N","o">>), Some(<<"y","e","s"," ">>)}

TxnTimes == {637, 650, 1430}

\* the tip of the k-th row: 2.25, 3.50, 4.75, ...
TipOfPosition(k) == (100 + 125 * k) * Cent

TransactionRow(k, time, approved) ==
    [TransDateTime |-> time, AmtTip |-> TipOfPosition(k), Approved |-> approved]

TransactionLists(n) ==
    { [k \in 1..n |-> TransactionRow(k, f[k][1], f[k][2])] :
        f \in [1..n -> TxnTimes \X ApprovedValues] }

TxnIntervals == {15, 30}

TxnInit ==
    /\ pc = "step2"
    /\ \E n \in 0..MaxTransactions : transactions \in TransactionLists(n)
    /\ convertTz \in BOOLEAN
    /\ intervalMinutes \in {Some(m) : m \in TxnIntervals}
    /\ tipsBySlot = <<>>
    /\ PipelineIdle
    /\ cleanedClock = <<>> /\ intervalArg = Null /\ call = 0 /\ rowIdx = 0
    /\ slotStart = Null /\ expanded = <<>> /\ firstResult = <<>>
    /\ OtherIdle

\* index.js Step 2
Step2ProcessTransactions ==
    /\ pc = "step2"
    /\ tipsBySlot' = processTransactions(transactions, intervalMinutes[1], convertTz)
    /\ pc' = "step3"
    /\ UNCHANGED <<pipelineVars, expandVars, txnVars, otherVars>>

TxnNext == Step2ProcessTransactions

SpecTxn == TxnInit /\ [][TxnNext]_vars

(* Claims about processTransactions *)

SaysYes(a) ==
    /\ a # Null
    /\ Len(a[1]) = 3
    /\ a[1][1] \in {"y", "Y"} /\ a[1][2] \in {"e", "E"} /\ a[1][3] \in {"s", "S"}

KeptRows == {i \in DOMAIN transactions : SaysYes(transactions[i].Approved)}

KeyOfRow(i) ==
    LET t == IF convertTz THEN transactions[i].TransDateTime + 60
             ELSE transactions[i].TransDateTime
        slot == createStandardInterval(t, intervalMinutes[1])
    IN <<slot.Date, slot.TimeSlotStart>>

RECURSIVE SumOver(_, _)
SumOver(S, f) ==
    IF S = {} THEN 0
    ELSE LET x == CHOOSE y \in S : TRUE IN f[x] + SumOver(S \ {x}, f)

TipOfRow == [i \in DOMAIN transactions |-> transactions[i].AmtTip]

----------------------------------------------------------------------------
(* index.js with --boh-pct: the script body before main() *)

\* parseInt(text, 10) on a string: leading blanks, a sign, then digits
IsDigit(c) == \E i \in DOMAIN DigitChars : DigitChars[i] = c

RECURSIVE DigitsPrefix(_)
DigitsPrefix(s) ==
    IF s = <<>> \/ ~IsDigit(Head(s)) THEN <<>>
    ELSE <<Head(s)>> \o DigitsPrefix(Tail(s))

DigitValue(c) == CHOOSE d \in 0..9 : DigitChars[d + 1] = c

RECURSIVE DecimalValue(_)
DecimalValue(ds) ==
    IF ds = <<>> THEN 0
    ELSE DecimalValue(SubSeq(ds, 1, Len(ds) - 1)) * 10 + DigitValue(ds[Len(ds)])

RECURSIVE TrimStart(_)
TrimStart(s) == IF s # <<>> /\ Head(s) = " " THEN TrimStart(Tail(s)) ELSE s

parseInt(x) ==
    IF x.type = "number" THEN x
    ELSE IF x.type # "string" THEN NaN
    ELSE LET t == TrimStart(x.kind)
             neg == t # <<>> /\ Head(t) = "-"
             u == IF t # <<>> /\ Head(t) \in {"-", "+"} THEN Tail(t) ELSE t
             ds == DigitsPrefix(u)
         IN IF ds = <<>> THEN NaN
            ELSE Num(IF neg THEN 0 - DecimalValue(ds) ELSE DecimalValue(ds))

\* the truthiness of args['boh-pct']
IsTruthy(x) ==
    CASE x.type = "number" -> x.kind # "NaN" /\ ~(x.kind = "finite" /\ x.value = 0)
      [] x.type = "string" -> x.kind # <<>>
      [] OTHER -> FALSE

\* minutesInDay % intervalMinutes !== 0
IntervalRejected(n) ==
    \/ n.kind # "finite"
    \/ n.value = 0
    \/ (1440 % Abs(n.value)) # 0

\* bohPctOverride !== null && (bohPctOverride < 0 || bohPctOverride > 100)
BohPctRejected(p) ==
    /\ p # JsNull
    /\ \/ (p.kind = "finite" /\ p.value < 0)
       \/ p.kind = "Infinity"
       \/ (p.kind = "finite" /\ p.value > 100)

\* what minimist hands over: the default '15' or what was typed
IntervalArgValues ==
    {Str(<<"1","5">>), Num(1), Num(7), Num(0), Num(30), Num(45), Num(-15),
     Num(1440), Num(2880), Str(<<"a","b","c">>), Str(<<"3","0","m">>)}
BohPctArgValues ==
    {JsNull, Num(0), Num(15), Num(40), Num(100), Num(101), Num(150), Num(-5),
     Str(<<"a","b","c">>), Str(<<"4","0","%">>)}

ConfigInit ==
    /\ pc = "parse_args"
    /\ args \in [interval : IntervalArgValues, bohPct : BohPctArgValues]
    /\ intervalMinutes = Null
    /\ bohPctOverride = Null
    /\ outcome = "running"
    /\ written = {}
    /\ tipsBySlot = <<>>
    /\ intervals = <<>> /\ staffMap = <<>> /\ tipPools = <<>>
    /\ individualTipShares = <<>> /\ unallocatedTips = <<>>
    /\ redistribution = <<>> /\ finalTotals = <<>>
    /\ cleanedClock = <<>> /\ intervalArg = Null /\ call = 0 /\ rowIdx = 0
    /\ slotStart = Null /\ expanded = <<>> /\ firstResult = <<>>
    /\ TxnIdle
    /\ NewVersionIdle
    /\ UnitIdle

configFrame == <<tipsBySlot, intervals, staffMap, tipPools, individualTipShares,
                 unallocatedTips, redistribution, finalTotals, cleanedClock,
                 intervalArg, call, rowIdx, slotStart, expanded, firstResult,
                 txnVars, args, newVersionVars, unitVars>>

ParseArgs ==
    /\ pc = "parse_args"
    /\ intervalMinutes' = parseInt(args.interval)
    /\ bohPctOverride' = IF IsTruthy(args.bohPct) THEN parseInt(args.bohPct) ELSE JsNull
    /\ pc' = "validate_interval"
    /\ UNCHANGED <<configFrame, outcome, written>>

ValidateInterval ==
    /\ pc = "validate_interval"
    /\ IF IntervalRejected(intervalMinutes)
         THEN pc' = "exited" /\ outcome' = "exit(1)"
         ELSE pc' = "validate_boh_pct" /\ UNCHANGED outcome
    /\ UNCHANGED <<configFrame, intervalMinutes, bohPctOverride, written>>

ValidateBohPct ==
    /\ pc = "validate_boh_pct"
    /\ IF BohPctRejected(bohPctOverride)
         THEN pc' = "exited" /\ outcome' = "exit(1)"
         ELSE pc' = "main" /\ UNCHANGED outcome
    /\ UNCHANGED <<configFrame, intervalMinutes, bohPctOverride, written>>

\* main() runs with the validated values and writes the step files
RunMain ==
    /\ pc = "main"
    /\ written' = {"step8_final_employee_totals.csv"}
    /\ outcome' = "completed"
    /\ pc' = "done"
    /\ UNCHANGED <<configFrame, intervalMinutes, bohPctOverride>>

ConfigNext ==
    \/ ParseArgs
    \/ ValidateInterval
    \/ ValidateBohPct
    \/ RunMain

SpecConfig == ConfigInit /\ [][ConfigNext]_vars

\* C11: configuration errors are never fatal. An interval that does not
\* divide 1440 or a BOH percentage outside 0..100 is replaced by its default,
\* and the run goes on to main() and produces its output.
C11_ConfigErrorsNotFatal ==
    /\ outcome # "exit(1)"
    /\ pc = "done" =>
          /\ written # {}
          /\ IntervalRejected(parseInt(args.interval)) => intervalMinutes = Num(15)

----------------------------------------------------------------------------
(* clockData.js with grid-floored intervals, feeding the day redistribution *)

\* createStandardInterval(date, minutes, dateStr): the given date string is
\* the interval's Date
createStandardIntervalOn(date, minutes, dateStr) ==
    [createStandardInterval(date, minutes) EXCEPT !.Date = dateStr]

\* slotStart < row.TimeOut, TimeOut a Date or null (null compares as 0, which
\* no slot start precedes)
SlotBeforeTimeOut(start, timeOut) == timeOut # Null /\ start < timeOut[1]

RECURSIVE GridIntervalsFrom(_, _, _)
GridIntervalsFrom(row, start, minutes) ==
    IF ~SlotBeforeTimeOut(start, row.TimeOut) THEN <<>>
    ELSE LET standardInterval == createStandardIntervalOn(start, minutes, row.Date)
         IN <<[Employee |-> row.Employee, Department |-> row.Department,
               Date |-> standardInterval.Date,
               TimeSlotStart |-> standardInterval.TimeSlotStart,
               TimeSlotEnd |-> standardInterval.TimeSlotEnd]>>
            \o GridIntervalsFrom(row, standardInterval.TimeSlotEnd, minutes)

RECURSIVE GridIntervalsOfRows(_, _)
GridIntervalsOfRows(rows, minutes) ==
    IF rows = <<>> THEN <<>>
    ELSE LET row == Head(rows)
             first == createStandardIntervalOn(row.TimeIn, minutes, row.Date)
         IN GridIntervalsFrom(row, first.TimeSlotStart, minutes)
            \o GridIntervalsOfRows(Tail(rows), minutes)

expandToIntervals(rows, arg) == GridIntervalsOfRows(rows, ValidatedInterval(arg))

\* shift rows as processClockData leaves them: TimeOut may be null
ClockEmployees == 3
ClockTimeIn == 10 * 60 + 7
ClockDurations == {Null, Some(0), Some(20)}

ClockRow(who, day, duration) ==
    LET timeIn == day * 1440 + ClockTimeIn
    IN [Employee |-> Roster[who].Employee, Department |-> Roster[who].Department,
        Date |-> DateStrings[day + 1], TimeIn |-> timeIn,
        TimeOut |-> IF duration = Null THEN Null ELSE Some(timeIn + duration[1])]

ClockRowLists(n) ==
    { [k \in 1..n |-> ClockRow(f[k][1], f[k][2], f[k][3])] :
        f \in [1..n -> (1..ClockEmployees) \X {0, 1} \X ClockDurations] }

UnallocatedLists ==
    { [i \in DOMAIN t |->
          [Date |-> t[i].Date, TimeSlotStart |-> t[i].TimeSlotStart,
           UnallocatedTip |-> t[i].AmtTip]] : t \in TipLists }

RosterInit ==
    /\ pc = "step1"
    /\ \E n \in 0..MaxShifts : cleanedClock \in ClockRowLists(n)
    /\ unallocatedTips \in UnallocatedLists
    /\ intervalMinutes = Some(IntervalMinutesUsed)
    /\ intervals = <<>>
    /\ redistribution = <<>>
    /\ tipsBySlot = <<>>
    /\ bohPctOverride = Null /\ staffMap = <<>> /\ tipPools = <<>>
    /\ individualTipShares = <<>> /\ finalTotals = <<>> /\ written = {}
    /\ outcome = "running"
    /\ intervalArg = Null /\ call = 0 /\ rowIdx = 0 /\ slotStart = Null
    /\ expanded = <<>> /\ firstResult = <<>>
    /\ TxnIdle
    /\ OtherIdle

rosterFrame == <<tipsBySlot, bohPctOverride, staffMap, tipPools,
                 individualTipShares, finalTotals, written, outcome,
                 cleanedClock, unallocatedTips, intervalMinutes, intervalArg,
                 call, rowIdx, slotStart, expanded, firstResult, txnVars,
                 otherVars>>

\* index.js Step 1: intervals = expandToIntervals(cleanedClock, intervalMinutes)
RosterStep1Expand ==
    /\ pc = "step1"
    /\ intervals' = expandToIntervals(cleanedClock, Num(intervalMinutes[1]))
    /\ pc' = "step6"
    /\ UNCHANGED <<rosterFrame, redistribution>>

\* index.js Step 6: redistributeUnallocatedTips(unallocatedTips, intervals, ...)
RosterStep6Redistribute ==
    /\ pc = "step6"
    /\ redistribution' = redistributeUnallocatedTips(unallocatedTips, intervals)
    /\ pc' = "done"
    /\ UNCHANGED <<rosterFrame, intervals>>

RosterNext ==
    \/ RosterStep1Expand
    \/ RosterStep6Redistribute

SpecRoster == RosterInit /\ [][RosterNext]_vars

ShiftEmployeesOn(date) ==
    {cleanedClock[k].Employee :
        k \in {j \in DOMAIN cleanedClock : cleanedClock[j].Date = date}}
RedistributedTo(date) ==
    {redistribution[i].Employee :
        i \in {j \in DOMAIN redistribution : redistribution[j].Date = date}}

\* C12: day roster. For every date with an unallocated total, the employees
\* it is divided among are the distinct employees having any shift record
\* that date, a record with TimeOut null included.
C12_DayRosterFromShifts ==
    pc = "done" =>
        \A date \in DatesUnallocated : RedistributedTo(date) = ShiftEmployeesOn(date)

----------------------------------------------------------------------------
(* Further claims about the configurable-ratio pipeline *)

\* C13: stranded funds are surfaced. A date with unallocated total U > 0 and
\* no employee on its roster is reported by the redistribution (a record for
\* the date, or a failed outcome), never passed over in silence.
C13_StrandedFundsSurfaced ==
    RedistributionDone =>
        \A date \in DatesUnallocated :
            (TotalUnallocatedOn(date) > 0 /\ EmployeeSetOn(date) = {}) =>
                \/ RecordsOn(date) # {}
                \/ outcome = "failed"

EmployeesIn(r, category) ==
    {intervals[i].Employee :
        i \in {j \in DOMAIN intervals :
                  /\ SlotKey(intervals[j]) = SlotKey(r)
                  /\ categorizeEmployee(intervals[j]) = category}}

ShareOfEmployeeIn(r, emp) ==
    SumSeq([i \in DOMAIN individualTipShares |->
              IF /\ SlotKey(individualTipShares[i]) = SlotKey(r)
                 /\ individualTipShares[i].Employee = emp
              THEN individualTipShares[i].IndividualTipShare ELSE 0])

\* C14: presence deduplication. An employee with several records covering
\* one slot counts once in FOHCount/BOHCount and receives one share: every
\* employee of a role gets pool / (number of distinct employees of the role).
C14_PresenceDeduplicated ==
    SharesDone =>
        \A p \in DOMAIN tipPools :
            LET r == tipPools[p] IN
            /\ r.FOHCount = Cardinality(EmployeesIn(r, "FOH"))
            /\ r.BOHCount = Cardinality(EmployeesIn(r, "BOH"))
            /\ \A e \in EmployeesIn(r, "FOH") :
                  ShareOfEmployeeIn(r, e) * Cardinality(EmployeesIn(r, "FOH"))
                      = r.FOHTipPool
            /\ \A e \in EmployeesIn(r, "BOH") :
                  ShareOfEmployeeIn(r, e) * Cardinality(EmployeesIn(r, "BOH"))
                      = r.BOHTipPool

----------------------------------------------------------------------------
(* src/tipAllocation.js: computeTipPools as a function of its arguments *)

MaxHeads == 2

\* the per-slot callback: one role alone takes the whole tip, both roles
\* split it in proportion to their head counts
TipPoolOfByHeadCount(slot, staffs) ==
    LET key == SlotKey(slot)
        staff == IF key \in DOMAIN staffs THEN staffs[key] ELSE NoStaff
        totalStaff == staff.FOH + staff.BOH
        onlyFOH == staff.FOH > 0 /\ staff.BOH = 0
        onlyBOH == staff.FOH = 0 /\ staff.BOH > 0
        fohTipPool ==
            IF onlyFOH THEN slot.AmtTip
            ELSE IF onlyBOH THEN 0
            ELSE IF totalStaff > 0 THEN (staff.FOH * slot.AmtTip) \div totalStaff
            ELSE 0
        bohTipPool ==
            IF onlyFOH THEN 0
            ELSE IF onlyBOH THEN slot.AmtTip
            ELSE IF totalStaff > 0 THEN (staff.BOH * slot.AmtTip) \div totalStaff
            ELSE 0
    IN [Date |-> slot.Date, TimeSlotStart |-> slot.TimeSlotStart,
        AmtTip |-> slot.AmtTip, FOHCount |-> staff.FOH, BOHCount |-> staff.BOH,
        ExecCount |-> staff.EXEC, FOHTipPool |-> fohTipPool,
        BOHTipPool |-> bohTipPool, TotalStaff |-> totalStaff]

computeTipPoolsByHeadCount(slots, staffs) ==
    [i \in DOMAIN slots |-> TipPoolOfByHeadCount(slots[i], staffs)]

StaffCounts ==
    {[FOH |-> f, BOH |-> b, EXEC |-> e, total |-> f + b] :
        f \in 0..MaxHeads, b \in 0..MaxHeads, e \in 0..1}

StaffMapKeys == {SlotKey(SlotList[1]), SlotKey(SlotList[2])}

HeadCountInit ==
    /\ pc = "compute_pools"
    /\ tipsBySlot \in TipLists
    /\ \E K \in SUBSET StaffMapKeys : staffMap \in [K -> StaffCounts]
    /\ tipPools = <<>>
    /\ intervals = <<>> /\ bohPctOverride = Null
    /\ individualTipShares = <<>> /\ unallocatedTips = <<>>
    /\ redistribution = <<>> /\ finalTotals = <<>> /\ written = {}
    /\ outcome = "running"
    /\ ExpandIdle
    /\ TxnIdle
    /\ OtherIdle

CallComputeTipPools ==
    /\ pc = "compute_pools"
    /\ tipPools' = computeTipPoolsByHeadCount(tipsBySlot, staffMap)
    /\ pc' = "returned"
    /\ UNCHANGED <<tipsBySlot, staffMap, intervals, bohPctOverride,
                   individualTipShares, unallocatedTips, redistribution,
                   finalTotals, written, outcome, expandVars, txnVars, otherVars>>

HeadCountNext == CallComputeTipPools

SpecHeadCount == HeadCountInit /\ [][HeadCountNext]_vars

\* C15: computeTipPools of src/tipAllocation.js, slot staffed by both roles:
\* FOHTipPool = 0.85 * AmtTip and BOHTipPool = 0.15 * AmtTip whatever the two
\* head counts are.
C15_FixedSplitWhenBothStaffed ==
    pc = "returned" =>
        \A p \in DOMAIN tipPools :
            (tipPools[p].FOHCount > 0 /\ tipPools[p].BOHCount > 0) =>
                /\ tipPools[p].FOHTipPool * 100 = tipPools[p].AmtTip * 85
                /\ tipPools[p].BOHTipPool * 100 = tipPools[p].AmtTip * 15

----------------------------------------------------------------------------
(* The original tipAllocation.js: fixed 85/15 pools, run as in test-flow.js.
   Its redistributeUnallocatedTips and aggregateFinalTips have the same text
   as the configurable-ratio ones modelled above. *)

IsFront(rec) == includes(toLowerCase(rec.Department), <<"f","r","o","n","t">>)
IsBack(rec) == includes(toLowerCase(rec.Department), <<"b","a","c","k">>)

CountFront(recs, key) ==
    Cardinality({i \in DOMAIN recs : SlotKey(recs[i]) = key /\ IsFront(recs[i])})
CountBack(recs, key) ==
    Cardinality({i \in DOMAIN recs :
                    SlotKey(recs[i]) = key /\ ~IsFront(recs[i]) /\ IsBack(recs[i])})

countStaffPerSlotOrig(recs) ==
    [key \in {SlotKey(recs[i]) : i \in DOMAIN recs} |->
        [FOH |-> CountFront(recs, key), BOH |-> CountBack(recs, key)]]

TipPoolOfOrig(slot, staffs) ==
    LET key == SlotKey(slot)
        staff == IF key \in DOMAIN staffs THEN staffs[key] ELSE [FOH |-> 0, BOH |-> 0]
    IN [Date |-> slot.Date, TimeSlotStart |-> slot.TimeSlotStart,
        AmtTip |-> slot.AmtTip, FOHCount |-> staff.FOH, BOHCount |-> staff.BOH,
        FOHTipPool |-> (slot.AmtTip * 85) \div 100,
        BOHTipPool |-> (slot.AmtTip * 15) \div 100,
        TotalStaff |-> staff.FOH + staff.BOH]

computeTipPoolsOrig(slots, staffs) ==
    [i \in DOMAIN slots |-> TipPoolOfOrig(slots[i], staffs)]

ShareOfOrig(rec, pools) ==
    LET pool == PoolFor(pools, SlotKey(rec))
    IN IF pool = Null THEN 0
       ELSE IF IsFront(rec) /\ pool[1].FOHCount > 0
            THEN pool[1].FOHTipPool \div pool[1].FOHCount
       ELSE IF IsBack(rec) /\ pool[1].BOHCount > 0
            THEN pool[1].BOHTipPool \div pool[1].BOHCount
       ELSE 0

calculateIndividualTipSharesOrig(recs, pools) ==
    [i \in DOMAIN recs |->
        [Employee |-> recs[i].Employee, Department |-> recs[i].Department,
         Date |-> recs[i].Date, TimeSlotStart |-> recs[i].TimeSlotStart,
         TimeSlotEnd |-> recs[i].TimeSlotEnd,
         IndividualTipShare |-> ShareOfOrig(recs[i], pools)]]

\* variant: only a missing FOH is treated as an orphaned pool
PartialOrphanedFohOnly(r) ==
    IF r.FOHCount = 0 THEN r.FOHTipPool ELSE 0

PartialOrphaned(r) ==
    (IF r.FOHCount = 0 THEN r.FOHTipPool ELSE 0)
        + (IF r.BOHCount = 0 THEN r.BOHTipPool ELSE 0)

identifyUnallocatedTipsOrig(pools) ==
    LET full == SelectSeq(pools, LAMBDA r : r.TotalStaff = 0)
        partial == SelectSeq(pools, LAMBDA r :
                       r.TotalStaff > 0 /\ r.AmtTip > 0
                           /\ (r.FOHCount = 0 \/ r.BOHCount = 0))
        fullyUnallocated ==
            [i \in DOMAIN full |->
                [Date |-> full[i].Date, TimeSlotStart |-> full[i].TimeSlotStart,
                 UnallocatedTip |-> full[i].AmtTip]]
        partialUnallocated ==
            [i \in DOMAIN partial |->
                [Date |-> partial[i].Date,
                 TimeSlotStart |-> partial[i].TimeSlotStart,
                 UnallocatedTip |-> PartialOrphaned(partial[i])]]
    IN fullyUnallocated \o partialUnallocated

\* who can appear in an interval record of this run
OrigRoster ==
    << [Employee |-> <<"J","o","h","n">>,
        Department |-> <<"F","r","o","n","t"," ","o","f"," ","H","o","u","s","e">>],
       [Employee |-> <<"J","a","n","e">>,
        Department |-> <<"F","r","o","n","t"," ","o","f"," ","H","o","u","s","e">>],
       [Employee |-> <<"K","i","t">>,
        Department |-> <<"B","a","c","k"," ","o","f"," ","H","o","u","s","e">>],
       [Employee |-> <<"B","o">>, Department |-> <<"B","a","r">>] >>

OrigRecordAt(n) ==
    LET who == OrigRoster[(n \div Len(SlotList)) + 1]
        slot == SlotList[(n % Len(SlotList)) + 1]
    IN [Employee |-> who.Employee, Department |-> who.Department,
        Date |-> slot.Date, TimeSlotStart |-> slot.TimeSlotStart,
        TimeSlotEnd |-> slot.TimeSlotStart + IntervalMinutesUsed]

\* interval lists of n records up to reordering (a record may repeat)
OrigIntervalLists(n) ==
    { [i \in 1..n |-> OrigRecordAt(f[i])] :
        f \in {g \in [1..n -> 0..(Len(OrigRoster) * Len(SlotList) - 1)] :
                  \A i \in 1..(n - 1) : g[i] <= g[i + 1]} }

OrigInit ==
    /\ pc = "count_staff"
    /\ \E n \in 0..MaxIntervals : intervals \in OrigIntervalLists(n)
    /\ tipsBySlot \in TipLists
    /\ bohPctOverride = Null
    /\ staffMap = <<>>
    /\ tipPools = <<>>
    /\ individualTipShares = <<>>
    /\ unallocatedTips = <<>>
    /\ redistribution = <<>>
    /\ finalTotals = <<>>
    /\ written = {}
    /\ outcome = "running"
    /\ ExpandIdle
    /\ TxnIdle
    /\ OtherIdle

origFrame == <<intervals, tipsBySlot, bohPctOverride, written, outcome,
               expandVars, txnVars, otherVars>>

OrigCountStaff ==
    /\ pc = "count_staff"
    /\ staffMap' = countStaffPerSlotOrig(intervals)
    /\ pc' = "compute_pools"
    /\ UNCHANGED <<origFrame, tipPools, individualTipShares, unallocatedTips,
                   redistribution, finalTotals>>

OrigComputeTipPools ==
    /\ pc = "compute_pools"
    /\ tipPools' = computeTipPoolsOrig(tipsBySlot, staffMap)
    /\ pc' = "individual_shares"
    /\ UNCHANGED <<origFrame, staffMap, individualTipShares, unallocatedTips,
                   redistribution, finalTotals>>

OrigIndividualShares ==
    /\ pc = "individual_shares"
    /\ individualTipShares' = calculateIndividualTipSharesOrig(intervals, tipPools)
    /\ pc' = "identify_unallocated"
    /\ UNCHANGED <<origFrame, staffMap, tipPools, unallocatedTips,
                   redistribution, finalTotals>>

OrigIdentifyUnallocated ==
    /\ pc = "identify_unallocated"
    /\ unallocatedTips' = identifyUnallocatedTipsOrig(tipPools)
    /\ pc' = "redistribute"
    /\ UNCHANGED <<origFrame, staffMap, tipPools, individualTipShares,
                   redistribution, finalTotals>>

OrigRedistribute ==
    /\ pc = "redistribute"
    /\ redistribution' = redistributeUnallocatedTips(unallocatedTips, intervals)
    /\ pc' = "aggregate"
    /\ UNCHANGED <<origFrame, staffMap, tipPools, individualTipShares,
                   unallocatedTips, finalTotals>>

OrigAggregate ==
    /\ pc = "aggregate"
    /\ finalTotals' = aggregateFinalTips(individualTipShares, redistribution)
    /\ pc' = "done"
    /\ UNCHANGED <<origFrame, staffMap, tipPools, individualTipShares,
                   unallocatedTips, redistribution>>

OrigNext ==
    \/ OrigCountStaff
    \/ OrigComputeTipPools
    \/ OrigIndividualShares
    \/ OrigIdentifyUnallocated
    \/ OrigRedistribute
    \/ OrigAggregate

SpecOriginal == OrigInit /\ [][OrigNext]_vars

FrontSharesIn(r) ==
    {i \in DOMAIN individualTipShares :
        SlotKey(individualTipShares[i]) = SlotKey(r) /\ IsFront(individualTipShares[i])}

OnlyFrontStaffed(r) == r.FOHCount > 0 /\ r.BOHCount = 0

----------------------------------------------------------------------------
(* aggregateFinalTips as a function of its two arguments *)

MaxRecords == 2

AggregateEmployees == {Roster[1].Employee, Roster[2].Employee, Roster[3].Employee}
ShareAmounts == {0, 850 * Cent}
RedistributedAmounts == {0, 150 * Cent}

ShareRecordLists(n) ==
    { [k \in 1..n |->
          [Employee |-> f[k][1], Date |-> "2025-02-18",
           IndividualTipShare |-> f[k][2]]] :
        f \in [1..n -> AggregateEmployees \X ShareAmounts] }

RedistributionLists(n) ==
    { [k \in 1..n |->
          [Employee |-> f[k][1], Date |-> "2025-02-18",
           UnallocatedTipShare |-> f[k][2]]] :
        f \in [1..n -> AggregateEmployees \X RedistributedAmounts] }

AggregateInit ==
    /\ pc = "aggregate"
    /\ \E n \in 0..MaxRecords : individualTipShares \in ShareRecordLists(n)
    /\ \E n \in 0..MaxRecords : redistribution \in RedistributionLists(n)
    /\ finalTotals = <<>>
    /\ tipsBySlot = <<>>
    /\ intervals = <<>> /\ bohPctOverride = Null /\ staffMap = <<>>
    /\ tipPools = <<>> /\ unallocatedTips = <<>> /\ written = {}
    /\ outcome = "running"
    /\ ExpandIdle
    /\ TxnIdle
    /\ OtherIdle

CallAggregateFinalTips ==
    /\ pc = "aggregate"
    /\ finalTotals' = aggregateFinalTips(individualTipShares, redistribution)
    /\ pc' = "returned"
    /\ UNCHANGED <<tipsBySlot, intervals, bohPctOverride, staffMap, tipPools,
                   individualTipShares, unallocatedTips, redistribution,
                   written, outcome, expandVars, txnVars, otherVars>>

AggregateNext == CallAggregateFinalTips

SpecAggregate == AggregateInit /\ [][AggregateNext]_vars

EmployeesWithShare == {individualTipShares[i].Employee : i \in DOMAIN individualTipShares}
EmployeesRedistributedTo == {redistribution[i].Employee : i \in DOMAIN redistribution}

RECURSIVE SumOfShares(_, _)
SumOfShares(idx, emp) ==
    IF idx = {} THEN 0
    ELSE LET i == CHOOSE j \in idx : TRUE
         IN (IF individualTipShares[i].Employee = emp
             THEN individualTipShares[i].IndividualTipShare ELSE 0)
            + SumOfShares(idx \ {i}, emp)

RECURSIVE SumOfRedistributed(_, _)
SumOfRedistributed(idx, emp) ==
    IF idx = {} THEN 0
    ELSE LET i == CHOOSE j \in idx : TRUE
         IN (IF redistribution[i].Employee = emp
             THEN redistribution[i].UnallocatedTipShare ELSE 0)
            + SumOfRedistributed(idx \ {i}, emp)

\* C17: aggregateFinalTips returns exactly one row per distinct Employee of
\* the shares or of the redistribution records, with AllocatedTips the sum of
\* the employee's IndividualTipShare, UnallocatedTips the sum of the
\* employee's UnallocatedTipShare and TotalTips their sum.
C17_AggregateFinalTips ==
    pc = "returned" =>
        /\ {finalTotals[i].Employee : i \in DOMAIN finalTotals}
              = EmployeesWithShare \cup EmployeesRedistributedTo
        /\ Len(finalTotals) = Cardinality(EmployeesWithShare \cup EmployeesRedistributedTo)
        /\ \A i \in DOMAIN finalTotals :
              LET row == finalTotals[i] IN
              /\ row.AllocatedTips = SumOfShares(DOMAIN individualTipShares, row.Employee)
              /\ row.UnallocatedTips
                    = SumOfRedistributed(DOMAIN redistribution, row.Employee)
              /\ row.TotalTips = row.AllocatedTips + row.UnallocatedTips

\* one employee has two shares, another occurs in the redistribution only
C17_Witness ==
    /\ pc = "returned"
    /\ Len(individualTipShares) = 2
    /\ individualTipShares[1].Employee = individualTipShares[2].Employee
    /\ \E i \in DOMAIN redistribution :
          /\ redistribution[i].Employee \notin EmployeesWithShare
          /\ redistribution[i].UnallocatedTipShare > 0
    /\ \E i \in DOMAIN finalTotals : finalTotals[i].AllocatedTips = 1700 * Cent
    /\ Len(finalTotals) = 2

----------------------------------------------------------------------------
(* cli_newVersion.js: the functions. Times are minutes after midnight of the
   first date; the process runs in UTC. *)

DateIndex(dateStr) == (CHOOSE i \in DOMAIN DateStrings : DateStrings[i] = dateStr) - 1

\* how many times the loop "for (i = 0; i < 1440 / intervalMinutes; i++)" runs
\* for a size other than 0: i < 1440 / m is i * m < 1440 for a positive m and
\* never true for a negative one
LoopCount(minutes) ==
    IF minutes > 0 THEN (1440 + minutes - 1) \div minutes ELSE 0

\* the interval pushed in round i of the loop
DayIntervalAt(dateStr, minutes, i) ==
    LET start == addMinutes(DateIndex(dateStr) * 1440, i * minutes)
    IN [Date |-> dateStr, TimeSlotStart |-> start,
        TimeSlotEnd |-> addMinutes(start, minutes)]

generateDayIntervals(dateStr, minutes) ==
    [k \in 1..LoopCount(minutes) |-> DayIntervalAt(dateStr, minutes, k - 1)]

RECURSIVE ConcatAll(_)
ConcatAll(lists) ==
    IF lists = <<>> THEN <<>> ELSE Head(lists) \o ConcatAll(Tail(lists))

\* intervals.sort((a, b) => a.TimeIn - b.TimeIn): stable
RECURSIVE SortByTimeIn(_)
SortByTimeIn(s) ==
    IF s = <<>> THEN <<>>
    ELSE LET rest == SortByTimeIn(SubSeq(s, 1, Len(s) - 1))
             x == s[Len(s)]
             before == SelectSeq(rest, LAMBDA r : r.TimeIn <= x.TimeIn)
             after == SelectSeq(rest, LAMBDA r : r.TimeIn > x.TimeIn)
         IN before \o <<x>> \o after

Max(a, b) == IF a >= b THEN a ELSE b

\* variant: a tolerance of three minutes
RECURSIVE MergeRangesWideTolerance(_, _)
MergeRangesWideTolerance(current, rest) ==
    IF rest = <<>> THEN <<current>>
    ELSE LET next == Head(rest)
         IN IF next.TimeIn <= addMinutes(current.TimeOut, 3)
            THEN MergeRangesWideTolerance(
                     [current EXCEPT !.TimeOut = Max(current.TimeOut, next.TimeOut)],
                     Tail(rest))
            ELSE <<current>> \o MergeRangesWideTolerance(next, Tail(rest))

\* variant: no tolerance, a range is absorbed only if it starts by the time
\* current ends
RECURSIVE MergeRangesNoTolerance(_, _)
MergeRangesNoTolerance(current, rest) ==
    IF rest = <<>> THEN <<current>>
    ELSE LET next == Head(rest)
         IN IF next.TimeIn <= current.TimeOut
            THEN MergeRangesNoTolerance(
                     [current EXCEPT !.TimeOut = Max(current.TimeOut, next.TimeOut)],
                     Tail(rest))
            ELSE <<current>> \o MergeRangesNoTolerance(next, Tail(rest))

\* the merge loop: current absorbs every next range that starts at most one
\* minute after current ends
RECURSIVE MergeRanges(_, _)
MergeRanges(current, rest) ==
    IF rest = <<>> THEN <<current>>
    ELSE LET next == Head(rest)
         IN IF next.TimeIn <= addMinutes(current.TimeOut, 1)
            THEN MergeRanges([current EXCEPT !.TimeOut = Max(current.TimeOut, next.TimeOut)],
                             Tail(rest))
            ELSE <<current>> \o MergeRanges(next, Tail(rest))

MergedGroup(clock, key) ==
    LET group == SortByTimeIn(SelectSeq(clock, LAMBDA e : <<e.Employee, e.Date>> = key))
        merged == MergeRanges(Head(group), Tail(group))
    IN [i \in DOMAIN merged |->
          [Employee |-> key[1], Date |-> key[2], TimeIn |-> merged[i].TimeIn,
           TimeOut |-> merged[i].TimeOut, Department |-> merged[i].Department]]

groupAndMergeClockData(clock) ==
    LET keys == Dedup(MapSeq(clock, LAMBDA e : <<e.Employee, e.Date>>))
    IN ConcatAll([k \in DOMAIN keys |-> MergedGroup(clock, keys[k])])

\* Math.min / Math.max over the dates; of no dates they are +-Infinity, and
\* toISOString() of that date throws a RangeError
DateRangeOf(data) ==
    IF data = <<>> THEN Null
    ELSE LET idx == {DateIndex(data[i].Date) : i \in DOMAIN data}
         IN Some([min |-> CHOOSE a \in idx : \A b \in idx : a <= b,
                  max |-> CHOOSE a \in idx : \A b \in idx : a >= b])

\* transMap[key] || 0: the last slot of a key wins
TipOfKey(slots, key) ==
    LET idx == {i \in DOMAIN slots : SlotKey(slots[i]) = key}
    IN IF idx = {} THEN 0
       ELSE slots[CHOOSE i \in idx : \A j \in idx : j <= i].AmtTip

generateIntervalTipSummary(dayIntervals, slots) ==
    [i \in DOMAIN dayIntervals |->
        LET amtTip == TipOfKey(slots, SlotKey(dayIntervals[i]))
        IN [Date |-> dayIntervals[i].Date,
            TimeSlotStart |-> dayIntervals[i].TimeSlotStart,
            TimeSlotEnd |-> dayIntervals[i].TimeSlotEnd,
            TotalTips |-> amtTip,
            FOHTipPool |-> (amtTip * 85) \div 100,
            BOHTipPool |-> (amtTip * 15) \div 100]]

\* variant: a range touching the interval's boundary counts as present
IsPresentInclusive(emp, interval) ==
    emp.TimeIn <= interval.TimeSlotEnd /\ emp.TimeOut >= interval.TimeSlotStart

\* emp.TimeIn < interval.TimeSlotEnd && emp.TimeOut > interval.TimeSlotStart
IsPresent(emp, interval) ==
    emp.TimeIn < interval.TimeSlotEnd /\ emp.TimeOut > interval.TimeSlotStart

PresenceOf(interval, merged) ==
    LET present == SelectSeq(merged, LAMBDA emp : IsPresent(emp, interval))
        foh == SelectSeq(present, IsFront)
        boh == SelectSeq(present, IsBack)
        fohEmployees == Dedup(MapSeq(foh, LAMBDA emp : emp.Employee))
        bohEmployees == Dedup(MapSeq(boh, LAMBDA emp : emp.Employee))
    IN [Date |-> interval.Date, TimeSlotStart |-> interval.TimeSlotStart,
        TimeSlotEnd |-> interval.TimeSlotEnd,
        FOHEmployees |-> fohEmployees, BOHEmployees |-> bohEmployees,
        FOHCount |-> IF Len(foh) > 0 THEN Len(fohEmployees) ELSE 0,
        BOHCount |-> IF Len(boh) > 0 THEN Len(bohEmployees) ELSE 0]

generateIntervalEmployeePresence(dayIntervals, merged) ==
    [i \in DOMAIN dayIntervals |-> PresenceOf(dayIntervals[i], merged)]

\* intervalPresence.find(p => p.Date === summary.Date && same TimeSlotStart)
FindPresence(presences, summary) ==
    LET idx == {i \in DOMAIN presences : SlotKey(presences[i]) = SlotKey(summary)}
    IN IF idx = {} THEN Null
       ELSE Some(presences[CHOOSE i \in idx : \A j \in idx : i <= j])

\* the fallback: the distinct employees of that day's merged clock data
FallbackList(merged, date) ==
    Dedup(MapSeq(SelectSeq(merged, LAMBDA emp : emp.Date = date),
                 LAMBDA emp : emp.Employee))

NobodyPresent(presence) ==
    presence = Null \/ (presence[1].FOHCount = 0 /\ presence[1].BOHCount = 0)

SharesTo(employees, date, share) ==
    [i \in DOMAIN employees |->
        [Employee |-> employees[i], Date |-> date, TipShare |-> share]]

AllocationsOf(summary, presences, merged) ==
    LET presence == FindPresence(presences, summary)
        fallbackList == FallbackList(merged, summary.Date)
    IN IF NobodyPresent(presence)
       THEN IF Len(fallbackList) > 0
            THEN SharesTo(fallbackList, summary.Date,
                          summary.TotalTips \div Len(fallbackList))
            ELSE <<>>
       ELSE IF presence[1].FOHCount > 0 /\ presence[1].BOHCount > 0
            THEN SharesTo(presence[1].FOHEmployees, summary.Date,
                          summary.FOHTipPool \div presence[1].FOHCount)
                 \o SharesTo(presence[1].BOHEmployees, summary.Date,
                             summary.BOHTipPool \div presence[1].BOHCount)
       ELSE IF presence[1].FOHCount > 0
            THEN SharesTo(presence[1].FOHEmployees, summary.Date,
                          summary.TotalTips \div presence[1].FOHCount)
       ELSE SharesTo(presence[1].BOHEmployees, summary.Date,
                     summary.TotalTips \div presence[1].BOHCount)

OrphanedOf(summary, presences, merged) ==
    IF NobodyPresent(FindPresence(presences, summary))
           /\ Len(FallbackList(merged, summary.Date)) = 0
    THEN <<[Date |-> summary.Date, Department |-> "BOTH",
            OrphanedTip |-> summary.TotalTips]>>
    ELSE <<>>

allocateTips(summaries, presences, merged) ==
    [allocations |->
        ConcatAll([i \in DOMAIN summaries |->
                      AllocationsOf(summaries[i], presences, merged)]),
     orphaned |->
        ConcatAll([i \in DOMAIN summaries |->
                      OrphanedOf(summaries[i], presences, merged)])]

OrphanedOfDay(orph, date) ==
    SumSeq([i \in DOMAIN orph |->
              IF orph[i].Date = date THEN orph[i].OrphanedTip ELSE 0])

RedistributionOfOrphanedDay(orph, merged, date) ==
    LET totalOrphaned == OrphanedOfDay(orph, date)
        empList == FallbackList(merged, date)
        share == IF Len(empList) > 0 THEN totalOrphaned \div Len(empList) ELSE 0
    IN SharesTo(empList, date, share)

redistributeOrphanedTips(orph, merged) ==
    LET dates == Dedup(MapSeq(orph, LAMBDA item : item.Date))
    IN ConcatAll([d \in DOMAIN dates |->
                     RedistributionOfOrphanedDay(orph, merged, dates[d])])

TipShareOf(recs, emp) ==
    SumSeq([i \in DOMAIN recs |->
              IF recs[i].Employee = emp THEN recs[i].TipShare ELSE 0])

aggregateFinalTotals(allocs, redist) ==
    LET emps == Dedup(MapSeq(allocs \o redist, LAMBDA rec : rec.Employee))
    IN [i \in DOMAIN emps |->
          [Employee |-> emps[i],
           TotalTips |-> TipShareOf(allocs, emps[i]) + TipShareOf(redist, emps[i])]]

----------------------------------------------------------------------------
(* cli_newVersion.js: the main script *)

MaxClockRows == 2
MaxNvTips == 3

NvEmployees == <<OrigRoster[1], OrigRoster[3], OrigRoster[4]>>

\* <<day, TimeIn, TimeOut>> in minutes of the day: on the first date a shift
\* ending at 08:00, two short ones after 08:00, one starting at 12:00
NvShifts ==
    << <<0, 420, 480>>, <<0, 490, 500>>, <<0, 510, 730>>, <<0, 720, 780>>,
       <<1, 510, 730>>, <<2, 510, 730>> >>

NvClockRowAt(n) ==
    LET who == NvEmployees[(n \div Len(NvShifts)) + 1]
        shift == NvShifts[(n % Len(NvShifts)) + 1]
    IN [Employee |-> who.Employee, Department |-> who.Department,
        Date |-> DateStrings[shift[1] + 1],
        TimeIn |-> shift[1] * 1440 + shift[2],
        TimeOut |-> shift[1] * 1440 + shift[3]]

NvClockLists(n) ==
    { [i \in 1..n |-> NvClockRowAt(f[i])] :
        f \in {g \in [1..n -> 0..(Len(NvEmployees) * Len(NvShifts) - 1)] :
                  \A i \in 1..(n - 1) : g[i] <= g[i + 1]} }

\* transaction slots as processTransactions leaves them: on the day grid
NvSlotList ==
    << [Date |-> "2025-02-18", TimeSlotStart |-> 480, AmtTip |-> 2000 * Cent],
       [Date |-> "2025-02-18", TimeSlotStart |-> 720, AmtTip |-> 735 * Cent],
       [Date |-> "2025-02-19", TimeSlotStart |-> 1440 + 480, AmtTip |-> 1000 * Cent],
       [Date |-> "2025-02-20", TimeSlotStart |-> 2880 + 480, AmtTip |-> 600 * Cent] >>

NvTipLists ==
    { LET RECURSIVE Build(_, _)
          Build(k, acc) ==
              IF k > Len(NvSlotList) THEN acc
              ELSE Build(k + 1, IF k \in S THEN Append(acc, NvSlotList[k]) ELSE acc)
      IN Build(1, <<>>) :
        S \in {T \in SUBSET (DOMAIN NvSlotList) : Cardinality(T) <= MaxNvTips} }

NvIntervals == {120, 240}

NewVersionInit ==
    /\ pc = "merge_clock"
    /\ \E n \in 0..MaxClockRows : cleanedClock \in NvClockLists(n)
    /\ tipsBySlot \in NvTipLists
    /\ intervalMinutes \in {Some(m) : m \in NvIntervals}
    /\ NewVersionIdle
    /\ redistribution = <<>>
    /\ finalTotals = <<>>
    /\ written = {}
    /\ outcome = "running"
    /\ intervals = <<>> /\ bohPctOverride = Null /\ staffMap = <<>>
    /\ tipPools = <<>> /\ individualTipShares = <<>> /\ unallocatedTips = <<>>
    /\ intervalArg = Null /\ call = 0 /\ rowIdx = 0 /\ slotStart = Null
    /\ expanded = <<>> /\ firstResult = <<>>
    /\ TxnIdle
    /\ ConfigIdle
    /\ UnitIdle

newVersionFrame == <<cleanedClock, tipsBySlot, intervalMinutes, intervals,
                     bohPctOverride, staffMap, tipPools, individualTipShares,
                     unallocatedTips, intervalArg, call, rowIdx, slotStart,
                     expanded, firstResult, txnVars, configVars, unitVars>>

Throw ==
    /\ pc' = "thrown"
    /\ outcome' = "error"

\* groupAndMergeClockData, merged_clock_data.csv, then the clock date range
NvMergeClock ==
    /\ pc = "merge_clock"
    /\ mergedClockData' = groupAndMergeClockData(cleanedClock)
    /\ written' = written \cup {"merged_clock_data.csv"}
    /\ IF DateRangeOf(cleanedClock) = Null
         THEN Throw
         ELSE pc' = "day_intervals" /\ UNCHANGED outcome
    /\ UNCHANGED <<newVersionFrame, fullDayIntervals, intervalTipSummary,
                   intervalPresence, allocations, orphaned, redistribution,
                   finalTotals>>

NvDayIntervals ==
    /\ pc = "day_intervals"
    /\ LET distinctDates == Dedup(MapSeq(cleanedClock, LAMBDA emp : emp.Date))
       IN fullDayIntervals' =
              ConcatAll([d \in DOMAIN distinctDates |->
                            generateDayIntervals(distinctDates[d], intervalMinutes[1])])
    /\ pc' = "date_range"
    /\ UNCHANGED <<newVersionFrame, mergedClockData, intervalTipSummary,
                   intervalPresence, allocations, orphaned, redistribution,
                   finalTotals, written, outcome>>

DateRangeMismatch ==
    LET txnRange == DateRangeOf(tipsBySlot)
        clockRange == DateRangeOf(cleanedClock)
    IN txnRange[1].min # clockRange[1].min \/ txnRange[1].max # clockRange[1].max

\* the transaction date range (a RangeError without transactions), then
\* "Verify date ranges match"
NvCheckDateRange ==
    /\ pc = "date_range"
    /\ IF DateRangeOf(tipsBySlot) = Null \/ DateRangeMismatch
         THEN Throw
         ELSE pc' = "step1" /\ UNCHANGED outcome
    /\ UNCHANGED <<newVersionFrame, newVersionVars, redistribution, finalTotals,
                   written>>

NvStep1TipSummary ==
    /\ pc = "step1"
    /\ intervalTipSummary' = generateIntervalTipSummary(fullDayIntervals, tipsBySlot)
    /\ written' = written \cup {"interval_tip_summary.csv"}
    /\ pc' = "step2"
    /\ UNCHANGED <<newVersionFrame, mergedClockData, fullDayIntervals,
                   intervalPresence, allocations, orphaned, redistribution,
                   finalTotals, outcome>>

NvStep2Presence ==
    /\ pc = "step2"
    /\ intervalPresence' =
          generateIntervalEmployeePresence(fullDayIntervals, mergedClockData)
    /\ written' = written \cup {"interval_employee_presence.csv",
                                "interval_coverage_summary.csv"}
    /\ pc' = "step3"
    /\ UNCHANGED <<newVersionFrame, mergedClockData, fullDayIntervals,
                   intervalTipSummary, allocations, orphaned, redistribution,
                   finalTotals, outcome>>

NvStep3Allocate ==
    /\ pc = "step3"
    /\ LET result == allocateTips(intervalTipSummary, intervalPresence, mergedClockData)
       IN /\ allocations' = result.allocations
          /\ orphaned' = result.orphaned
    /\ written' = written \cup {"orphaned_tips.csv"}
    /\ pc' = "step5"
    /\ UNCHANGED <<newVersionFrame, mergedClockData, fullDayIntervals,
                   intervalTipSummary, intervalPresence, redistribution,
                   finalTotals, outcome>>

NvStep5Redistribute ==
    /\ pc = "step5"
    /\ redistribution' = redistributeOrphanedTips(orphaned, mergedClockData)
    /\ pc' = "step6"
    /\ UNCHANGED <<newVersionFrame, newVersionVars, finalTotals, written, outcome>>

NvStep6Aggregate ==
    /\ pc = "step6"
    /\ finalTotals' = aggregateFinalTotals(allocations, redistribution)
    /\ pc' = "sanity_check"
    /\ UNCHANGED <<newVersionFrame, newVersionVars, redistribution, written, outcome>>

allocatedTotal == SumSeq(MapSeq(finalTotals, LAMBDA rec : rec.TotalTips))

\* variant: the check never fails
SanityCheckFailsNever(allocated, txn) == FALSE

\* Math.abs(allocatedTotal - txnTotal) >= 0.01
SanityCheckFails(allocated, txn) == Abs(allocated - txn) >= Tolerance

NvSanityCheck ==
    /\ pc = "sanity_check"
    /\ IF SanityCheckFails(allocatedTotal, txnTotal)
         THEN Throw
         ELSE pc' = "daily_summaries" /\ UNCHANGED outcome
    /\ UNCHANGED <<newVersionFrame, newVersionVars, redistribution, finalTotals,
                   written>>

\* aggregateDailyOrphanedTips is not defined anywhere: with orphaned tips the
\* script stops on a ReferenceError before the daily summaries are written
NvDailySummaries ==
    /\ pc = "daily_summaries"
    /\ IF Len(orphaned) # 0
         THEN Throw /\ UNCHANGED written
         ELSE /\ written' = written \cup {"daily_transaction_summary.csv",
                                          "daily_employee_hours.csv",
                                          "daily_employee_tip_allocation.csv"}
              /\ pc' = "final_totals"
              /\ UNCHANGED outcome
    /\ UNCHANGED <<newVersionFrame, newVersionVars, redistribution, finalTotals>>

NvWriteFinalTotals ==
    /\ pc = "final_totals"
    /\ written' = written \cup {"final_employee_totals.csv",
                                "detailed_orphaned_intervals.csv"}
    /\ outcome' = "completed"
    /\ pc' = "done"
    /\ UNCHANGED <<newVersionFrame, newVersionVars, redistribution, finalTotals>>

NewVersionNext ==
    \/ NvMergeClock
    \/ NvDayIntervals
    \/ NvCheckDateRange
    \/ NvStep1TipSummary
    \/ NvStep2Presence
    \/ NvStep3Allocate
    \/ NvStep5Redistribute
    \/ NvStep6Aggregate
    \/ NvSanityCheck
    \/ NvDailySummaries
    \/ NvWriteFinalTotals

SpecNewVersion == NewVersionInit /\ [][NewVersionNext]_vars

----------------------------------------------------------------------------
(* Claims about cli_newVersion.js *)

AllocationsMade == pc = "step5"

TippedUnstaffed(summary) ==
    /\ summary.TotalTips > 0
    /\ NobodyPresent(FindPresence(intervalPresence, summary))

AllocatedOn(date) ==
    SumSeq([i \in DOMAIN allocations |->
              IF allocations[i].Date = date THEN allocations[i].TipShare ELSE 0])

StaffedTipsOn(date) ==
    SumSeq([i \in DOMAIN intervalTipSummary |->
              IF intervalTipSummary[i].Date = date
                     /\ ~TippedUnstaffed(intervalTipSummary[i])
              THEN intervalTipSummary[i].TotalTips ELSE 0])

\* C18: once allocateTips has run, every interval that has tips and in which
\* neither an FOH nor a BOH employee is present has its entire tip recorded as
\* an orphaned entry, and the allocations of its day hold nothing of that tip:
\* they add up to the tips of the day's staffed intervals
C18_UnstaffedIntervalOrphaned ==
    AllocationsMade =>
        \A i \in DOMAIN intervalTipSummary :
            TippedUnstaffed(intervalTipSummary[i]) =>
                /\ \E j \in DOMAIN orphaned :
                      /\ orphaned[j].Date = intervalTipSummary[i].Date
                      /\ orphaned[j].OrphanedTip = intervalTipSummary[i].TotalTips
                /\ Abs(AllocatedOn(intervalTipSummary[i].Date)
                         - StaffedTipsOn(intervalTipSummary[i].Date)) < Tolerance

C18_UnstaffedReached ==
    /\ AllocationsMade
    /\ \E i \in DOMAIN intervalTipSummary : TippedUnstaffed(intervalTipSummary[i])

BeforeAllocation == {"merge_clock", "day_intervals", "date_range"}

TotalsAggregated ==
    pc \in {"sanity_check", "daily_summaries", "final_totals", "done"}
        \/ (pc = "thrown" /\ Len(intervalTipSummary) > 0)

TotalsDisagree == Abs(allocatedTotal - txnTotal) >= Tolerance

RangesDiffer ==
    /\ DateRangeOf(cleanedClock) # Null
    /\ DateRangeOf(tipsBySlot) # Null
    /\ DateRangeMismatch

\* C19: final_employee_totals.csv is written only after the sanity check has
\* passed; when the allocated and the transaction totals differ by 0.01 or
\* more the run goes from the sanity check to a thrown error and that file is
\* never written; when the clock and the transaction date ranges differ in
\* their first or last date the run throws at the date range check, before
\* any tip summary, presence or allocation is computed
C19_ChecksBeforeOutput ==
    /\ "final_employee_totals.csv" \in written =>
          pc = "done" /\ ~TotalsDisagree
    /\ (TotalsAggregated /\ TotalsDisagree) =>
          /\ pc \in {"sanity_check", "thrown"}
          /\ pc = "thrown" => outcome = "error"
          /\ "final_employee_totals.csv" \notin written
    /\ RangesDiffer =>
          /\ pc \in BeforeAllocation \cup {"thrown"}
          /\ pc = "thrown" => outcome = "error"
          /\ intervalTipSummary = <<>> /\ intervalPresence = <<>>
          /\ allocations = <<>> /\ orphaned = <<>>
          /\ "final_employee_totals.csv" \notin written

C19_Witness ==
    /\ pc = "thrown"
    /\ Len(allocations) > 0
    /\ TotalsDisagree
    /\ outcome = "error"

PresenceGenerated == pc = "step3"

ToSet(s) == {s[i] : i \in DOMAIN s}

NoRepeats(s) == \A i, j \in DOMAIN s : s[i] = s[j] => i = j

\* the employees with a range of the department that overlaps the interval
EmployeesOverlapping(interval, IsDept(_)) ==
    {mergedClockData[k].Employee :
        k \in {n \in DOMAIN mergedClockData :
                  /\ IsDept(mergedClockData[n])
                  /\ mergedClockData[n].TimeIn < interval.TimeSlotEnd
                  /\ mergedClockData[n].TimeOut > interval.TimeSlotStart}}

\* C20: once the presence records are generated there is one per calendar
\* interval, in order; its FOHEmployees (BOHEmployees) list holds, without
\* repeats, exactly the employees with a front (back) range whose TimeIn is
\* before TimeSlotEnd and whose TimeOut is after TimeSlotStart, and FOHCount
\* (BOHCount) is the size of that set; a range ending exactly at TimeSlotStart
\* or beginning exactly at TimeSlotEnd does not count
C20_PresenceRecords ==
    PresenceGenerated =>
        /\ Len(intervalPresence) = Len(fullDayIntervals)
        /\ \A i \in DOMAIN fullDayIntervals :
              LET interval == fullDayIntervals[i]
                  rec == intervalPresence[i]
              IN /\ SlotKey(rec) = SlotKey(interval)
                 /\ rec.TimeSlotEnd = interval.TimeSlotEnd
                 /\ NoRepeats(rec.FOHEmployees)
                 /\ NoRepeats(rec.BOHEmployees)
                 /\ ToSet(rec.FOHEmployees) = EmployeesOverlapping(interval, IsFront)
                 /\ ToSet(rec.BOHEmployees) = EmployeesOverlapping(interval, IsBack)
                 /\ rec.FOHCount = Cardinality(EmployeesOverlapping(interval, IsFront))
                 /\ rec.BOHCount = Cardinality(EmployeesOverlapping(interval, IsBack))

\* an interval with one range ending exactly at its start and another
\* beginning exactly at its end, neither employee listed, while another
\* interval lists an employee
C20_Witness ==
    /\ PresenceGenerated
    /\ \E i \in DOMAIN fullDayIntervals :
          /\ \E k \in DOMAIN mergedClockData :
                /\ mergedClockData[k].TimeOut = fullDayIntervals[i].TimeSlotStart
                /\ IsFront(mergedClockData[k]) \/ IsBack(mergedClockData[k])
                /\ mergedClockData[k].Employee \notin
                      ToSet(intervalPresence[i].FOHEmployees)
                        \cup ToSet(intervalPresence[i].BOHEmployees)
          /\ \E k \in DOMAIN mergedClockData :
                /\ mergedClockData[k].TimeIn = fullDayIntervals[i].TimeSlotEnd
                /\ IsFront(mergedClockData[k]) \/ IsBack(mergedClockData[k])
                /\ mergedClockData[k].Employee \notin
                      ToSet(intervalPresence[i].FOHEmployees)
                        \cup ToSet(intervalPresence[i].BOHEmployees)
    /\ \E i \in DOMAIN fullDayIntervals :
          intervalPresence[i].FOHCount + intervalPresence[i].BOHCount > 0

----------------------------------------------------------------------------
(* utils.js: floorToInterval, called on its own; timestamps in seconds *)

MaxFloorMinute == 130

\* dt.getMinutes()
getMinutes(t) == (t \div 60) % 60

\* dt.getSeconds()
getSeconds(t) == t % 60

\* new Date(dt.getTime() - remainder * 60000 - dt.getSeconds() * 1000
\*          - dt.getMilliseconds())
floorToInterval(t, minutes) ==
    LET remainder == getMinutes(t) % minutes
    IN t - remainder * 60 - getSeconds(t)

\* cli_newVersion.js floorToDayInterval: minutes since the day's midnight,
\* less their remainder
floorToDayInterval(t, minutes) ==
    LET base == (t \div 86400) * 86400
        diffMinutes == (t - base) \div 60
        flooredMinutes == diffMinutes - (diffMinutes % minutes)
    IN base + flooredMinutes * 60

\* the interval sizes the modular pipeline accepts that are at most an hour
GridIntervals == {n \in 2..60 : 1440 % n = 0}

FloorTimes ==
    {d * 86400 + m * 60 + sec : d \in {0, 1}, m \in 0..MaxFloorMinute, sec \in {0, 59}}

FloorInit ==
    /\ pc = "call_floorToInterval"
    /\ dtIn \in {Some(t) : t \in FloorTimes}
    /\ intervalMinutes \in {Some(n) : n \in GridIntervals}
    /\ floored = Null
    /\ dateArg = Null /\ round = 0
    /\ clockData = <<>>
    /\ employeeArg = Null /\ categories = Null
    /\ tipsBySlot = <<>>
    /\ PipelineIdle
    /\ cleanedClock = <<>> /\ intervalArg = Null /\ call = 0 /\ rowIdx = 0
    /\ slotStart = Null /\ expanded = <<>> /\ firstResult = <<>>
    /\ TxnIdle
    /\ ConfigIdle
    /\ NewVersionIdle

CallFloorToInterval ==
    /\ pc = "call_floorToInterval"
    /\ floored' = Some(floorToInterval(dtIn[1], intervalMinutes[1]))
    /\ pc' = "returned"
    /\ UNCHANGED <<tipsBySlot, pipelineVars, expandVars, txnVars, configVars,
                   newVersionVars, dtIn, dateArg, round, clockData, employeeArg,
                   categories>>

FloorNext == CallFloorToInterval

SpecFloor == FloorInit /\ [][FloorNext]_vars

\* the start, in seconds, of the calendar interval of the day that holds t
DaySlotStartOf(t, minutes) ==
    LET day == generateDayIntervals(DateStrings[(t \div 86400) + 1], minutes)
        i == CHOOSE k \in DOMAIN day :
                 day[k].TimeSlotStart * 60 <= t /\ t < day[k].TimeSlotEnd * 60
    IN day[i].TimeSlotStart * 60

\* C21: for every timestamp and every interval size from 2 to 60 that
\* divides 1440, what floorToInterval returns lies a whole number of
\* intervals after midnight, is at most the timestamp and less than one
\* interval before it, and is the slot start that floorToDayInterval and
\* generateDayIntervals give the timestamp
C21_FloorIsGridSlot ==
    pc = "returned" =>
        LET t == dtIn[1]
            size == intervalMinutes[1] * 60
            result == floored[1]
        IN /\ (result % 86400) % size = 0
           /\ result <= t /\ t < result + size
           /\ result = floorToDayInterval(t, intervalMinutes[1])
           /\ result = DaySlotStartOf(t, intervalMinutes[1])

\* the same for the interval sizes that divide the hour
C21_HoldsWhenSizeDividesHour ==
    (pc = "returned" /\ 60 % intervalMinutes[1] = 0) =>
        LET t == dtIn[1]
            size == intervalMinutes[1] * 60
            result == floored[1]
        IN /\ (result % 86400) % size = 0
           /\ result <= t /\ t < result + size
           /\ result = floorToDayInterval(t, intervalMinutes[1])
           /\ result = DaySlotStartOf(t, intervalMinutes[1])

----------------------------------------------------------------------------
(* cli_newVersion.js: groupAndMergeClockData, called on its own *)

MaxMergeRows == 3

\* <<TimeIn, TimeOut>> in minutes of the day: one minute between the first two,
\* two minutes between the first and the third, a range inside the first, a
\* range of no length
MergeRanges_Pool ==
    << <<600, 610>>, <<611, 620>>, <<612, 630>>, <<605, 607>>, <<622, 640>>,
       <<611, 611>> >>

\* <<employee, day>>
MergeGroups == << <<1, 0>>, <<2, 0>>, <<1, 1>> >>

MergeRowOf(g, r) ==
    LET who == NvEmployees[MergeGroups[g][1]]
        day == MergeGroups[g][2]
    IN [Employee |-> who.Employee, Department |-> who.Department,
        Date |-> DateStrings[day + 1],
        TimeIn |-> day * 1440 + MergeRanges_Pool[r][1],
        TimeOut |-> day * 1440 + MergeRanges_Pool[r][2]]

MergeRowLists(n) ==
    { [i \in 1..n |-> MergeRowOf(f[i][1], f[i][2])] :
        f \in [1..n -> (DOMAIN MergeGroups) \X (DOMAIN MergeRanges_Pool)] }

MergeInit ==
    /\ pc = "call_groupAndMergeClockData"
    /\ \E n \in 0..MaxMergeRows : cleanedClock \in MergeRowLists(n)
    /\ NewVersionIdle
    /\ tipsBySlot = <<>>
    /\ PipelineIdle
    /\ intervalArg = Null /\ call = 0 /\ intervalMinutes = Null /\ rowIdx = 0
    /\ slotStart = Null /\ expanded = <<>> /\ firstResult = <<>>
    /\ TxnIdle
    /\ ConfigIdle
    /\ UnitIdle

CallGroupAndMergeClockData ==
    /\ pc = "call_groupAndMergeClockData"
    /\ mergedClockData' = groupAndMergeClockData(cleanedClock)
    /\ pc' = "returned"
    /\ UNCHANGED <<tipsBySlot, pipelineVars, expandVars, txnVars, configVars,
                   unitVars, fullDayIntervals, intervalTipSummary,
                   intervalPresence, allocations, orphaned>>

MergeNext == CallGroupAndMergeClockData

SpecMerge == MergeInit /\ [][MergeNext]_vars

GroupKey(r) == <<r.Employee, r.Date>>

InputsOf(key) == {i \in DOMAIN cleanedClock : GroupKey(cleanedClock[i]) = key}

OutputsOf(key) == {o \in DOMAIN mergedClockData : GroupKey(mergedClockData[o]) = key}

Contains(out, in) == out.TimeIn <= in.TimeIn /\ in.TimeOut <= out.TimeOut

OutputsHolding(i) ==
    {o \in OutputsOf(GroupKey(cleanedClock[i])) :
        Contains(mergedClockData[o], cleanedClock[i])}

\* C22: for every (employee, date) group of shift ranges (none ending before
\* it starts), the output ranges of groupAndMergeClockData come in TimeIn
\* order, each starting more than 1 minute after the previous one ends; every
\* input range lies in exactly one output range; an output range ends at the
\* latest TimeOut of the input ranges in it; and two input ranges of which the
\* later starts at most 1 minute after the earlier ends lie in the same output
\* range
C22_MergePostCondition ==
    pc = "returned" =>
        /\ {GroupKey(mergedClockData[o]) : o \in DOMAIN mergedClockData}
              = {GroupKey(cleanedClock[i]) : i \in DOMAIN cleanedClock}
        /\ \A o1, o2 \in DOMAIN mergedClockData :
              (o1 < o2 /\ GroupKey(mergedClockData[o1]) = GroupKey(mergedClockData[o2])) =>
                  /\ mergedClockData[o1].TimeIn <= mergedClockData[o2].TimeIn
                  /\ mergedClockData[o2].TimeIn > mergedClockData[o1].TimeOut + 1
        /\ \A i \in DOMAIN cleanedClock : Cardinality(OutputsHolding(i)) = 1
        /\ \A o \in DOMAIN mergedClockData :
              LET held == {i \in InputsOf(GroupKey(mergedClockData[o])) :
                              Contains(mergedClockData[o], cleanedClock[i])}
              IN /\ held # {}
                 /\ \E i \in held : cleanedClock[i].TimeOut = mergedClockData[o].TimeOut
                 /\ \A i \in held : cleanedClock[i].TimeOut <= mergedClockData[o].TimeOut
        /\ \A i, j \in DOMAIN cleanedClock :
              (/\ GroupKey(cleanedClock[i]) = GroupKey(cleanedClock[j])
               /\ cleanedClock[i].TimeIn <= cleanedClock[j].TimeIn
               /\ cleanedClock[j].TimeIn <= cleanedClock[i].TimeOut + 1) =>
                  OutputsHolding(i) = OutputsHolding(j)

\* a group of three ranges merged into two, two of them joined across a gap of
\* exactly one minute
C22_Witness ==
    /\ pc = "returned"
    /\ \E key \in {GroupKey(cleanedClock[i]) : i \in DOMAIN cleanedClock} :
          /\ Cardinality(InputsOf(key)) = 3
          /\ Cardinality(OutputsOf(key)) = 2
          /\ \E i, j \in InputsOf(key) :
                /\ cleanedClock[j].TimeIn = cleanedClock[i].TimeOut + 1
                /\ OutputsHolding(i) = OutputsHolding(j)

----------------------------------------------------------------------------
(* cli_fullDay.js and cli_newVersion.js: --interval and the loop of          *)
(* generateDayIntervals, step by step, for one date of the clock data        *)

\* rounds of the loop followed before the run is given up as not ending
MaxRounds == 720

\* variant: i <= numIntervals
IndexBelowNumIntervalsInclusive(i, minutes) ==
    CASE minutes.kind = "NaN" -> FALSE
      [] minutes.value = 0 -> TRUE
      [] minutes.value > 0 -> i * minutes.value <= 1440
      [] OTHER -> FALSE

\* i < numIntervals with numIntervals = 1440 / intervalMinutes: NaN for NaN
\* (never true), Infinity for 0 (always true), negative for a negative size
IndexBelowNumIntervals(i, minutes) ==
    CASE minutes.kind = "NaN" -> FALSE
      [] minutes.value = 0 -> TRUE
      [] minutes.value > 0 -> i * minutes.value < 1440
      [] OTHER -> FALSE

RECURSIVE ToDecimal(_)
\* the decimal digits of a natural number, as typed
ToDecimal(n) ==
    IF n < 10 THEN <<DigitChars[n + 1]>>
    ELSE ToDecimal(n \div 10) \o <<DigitChars[(n % 10) + 1]>>

\* args.interval is always a string (minimist option "string")
DayIntervalArgs ==
    {Str(ToDecimal(n)) : n \in GridIntervals \cup {0, 7}}
        \cup {Str(<<"-","1","5">>), Str(<<"a","b","c">>), Str(<<>>)}

DayLoopInit ==
    /\ pc = "parse_interval"
    /\ args \in [interval : DayIntervalArgs]
    /\ dateArg \in {Some(DateStrings[d]) : d \in DOMAIN DateStrings}
    /\ round = 0
    /\ intervalMinutes = Null
    /\ dtIn = Null /\ floored = Null /\ clockData = <<>>
    /\ employeeArg = Null /\ categories = Null
    /\ NewVersionIdle
    /\ tipsBySlot = <<>>
    /\ PipelineIdle
    /\ cleanedClock = <<>> /\ intervalArg = Null /\ call = 0 /\ rowIdx = 0
    /\ slotStart = Null /\ expanded = <<>> /\ firstResult = <<>>
    /\ TxnIdle

dayLoopFrame == <<tipsBySlot, bohPctOverride, staffMap, tipPools,
                  individualTipShares, unallocatedTips, redistribution,
                  finalTotals, written, outcome, cleanedClock, intervalArg, call,
                  rowIdx, slotStart, expanded, firstResult, txnVars, args,
                  mergedClockData, intervalTipSummary, intervalPresence,
                  allocations, orphaned, dtIn, floored, dateArg, clockData,
                  employeeArg, categories>>

\* const intervalMinutes = parseInt(args.interval, 10)
DayParseInterval ==
    /\ pc = "parse_interval"
    /\ intervalMinutes' = parseInt(args.interval)
    /\ pc' = "day_loop"
    /\ UNCHANGED <<dayLoopFrame, intervals, fullDayIntervals, round>>

\* one round of the loop: push the interval, i++
DayLoopBody ==
    /\ pc = "day_loop"
    /\ IndexBelowNumIntervals(round, intervalMinutes)
    /\ round < MaxRounds
    /\ intervals' = Append(intervals,
                           DayIntervalAt(dateArg[1], intervalMinutes.value, round))
    /\ round' = round + 1
    /\ UNCHANGED <<dayLoopFrame, pc, intervalMinutes, fullDayIntervals>>

\* the loop condition fails: return intervals, which the script concatenates
DayLoopExit ==
    /\ pc = "day_loop"
    /\ ~IndexBelowNumIntervals(round, intervalMinutes)
    /\ fullDayIntervals' = fullDayIntervals \o intervals
    /\ pc' = "day_returned"
    /\ UNCHANGED <<dayLoopFrame, intervals, intervalMinutes, round>>

DayLoopNext ==
    \/ DayParseInterval
    \/ DayLoopBody
    \/ DayLoopExit

SpecDayLoop == DayLoopInit /\ [][DayLoopNext]_vars

\* the script is one thread that runs to its end: a step that can be taken is
\* taken
SpecDayLoopFair == SpecDayLoop /\ WF_vars(DayLoopNext)

ValidGridSize(minutes) ==
    /\ minutes.kind = "finite"
    /\ minutes.value >= 2 /\ minutes.value <= 60
    /\ 1440 % minutes.value = 0

\* C23: for every date and every valid interval size I, generateDayIntervals
\* returns exactly 1440/I intervals of that date, the first starting at the
\* date's midnight, each I minutes long, each starting where the previous one
\* ends, and the last ending at the next midnight
C23_CalendarGrid ==
    (pc = "day_returned" /\ ValidGridSize(intervalMinutes)) =>
        LET size == intervalMinutes.value
            midnight == DateIndex(dateArg[1]) * 1440
            n == Len(fullDayIntervals)
        IN /\ n * size = 1440
           /\ fullDayIntervals[1].TimeSlotStart = midnight
           /\ fullDayIntervals[n].TimeSlotEnd = midnight + 1440
           /\ \A k \in 1..n :
                 /\ fullDayIntervals[k].Date = dateArg[1]
                 /\ fullDayIntervals[k].TimeSlotEnd
                       = fullDayIntervals[k].TimeSlotStart + size
           /\ \A k \in 1..(n - 1) :
                 fullDayIntervals[k + 1].TimeSlotStart = fullDayIntervals[k].TimeSlotEnd

\* the grid of a size that does not divide the hour, on a later date
C23_Witness ==
    /\ pc = "day_returned"
    /\ intervalMinutes = Num(16)
    /\ dateArg = Some("2025-02-19")
    /\ Len(fullDayIntervals) = 90

C26_LoopConditionCanFail ==
    pc = "day_loop" =>
        \E n \in round..(round + 1440) : ~IndexBelowNumIntervals(n, intervalMinutes)

\* what the step-by-step loop returns is generateDayIntervals of the same size
DayLoopAgreesWithFunction ==
    (pc = "day_returned" /\ intervalMinutes.kind = "finite" /\ intervalMinutes.value > 0) =>
        fullDayIntervals = generateDayIntervals(dateArg[1], intervalMinutes.value)

----------------------------------------------------------------------------
(* tipAllocation.js with the day-level fallback: computeTipPools and         *)
(* identifyUnallocatedTips (the latter reads as the one modelled above)      *)

\* staffByDate[date]: absent when no key of the staff map has the date
StaffByDate(staffs, date) ==
    LET keys == {k \in DOMAIN staffs : k[1] = date}
    IN IF keys = {} THEN Null
       ELSE Some([FOH |-> IF \E k \in keys : staffs[k].FOH > 0 THEN 1 ELSE 0,
                  BOH |-> IF \E k \in keys : staffs[k].BOH > 0 THEN 1 ELSE 0])

\* the pools of a slot without staff of its own, from the departments present
\* that day
DayFallbackPools(slot, dayStaff) ==
    IF dayStaff = Null THEN [foh |-> 0, boh |-> 0]
    ELSE IF dayStaff[1].FOH = 0 /\ dayStaff[1].BOH = 0 THEN [foh |-> 0, boh |-> 0]
    ELSE IF dayStaff[1].FOH > 0 /\ dayStaff[1].BOH = 0
         THEN [foh |-> slot.AmtTip, boh |-> 0]
    ELSE IF dayStaff[1].FOH = 0 /\ dayStaff[1].BOH > 0
         THEN [foh |-> 0, boh |-> slot.AmtTip]
    ELSE [foh |-> slot.AmtTip \div 2, boh |-> slot.AmtTip \div 2]

TipPoolOfDayFallback(slot, staffs) ==
    LET key == SlotKey(slot)
        staff == IF key \in DOMAIN staffs THEN staffs[key] ELSE NoStaff
        totalStaff == staff.FOH + staff.BOH
        pools ==
            IF totalStaff > 0
            THEN IF staff.FOH > 0 /\ staff.BOH = 0
                 THEN [foh |-> slot.AmtTip, boh |-> 0]
                 ELSE IF staff.FOH = 0 /\ staff.BOH > 0
                 THEN [foh |-> 0, boh |-> slot.AmtTip]
                 ELSE [foh |-> (staff.FOH * slot.AmtTip) \div totalStaff,
                       boh |-> (staff.BOH * slot.AmtTip) \div totalStaff]
            ELSE DayFallbackPools(slot, StaffByDate(staffs, slot.Date))
    IN [Date |-> slot.Date, TimeSlotStart |-> slot.TimeSlotStart,
        AmtTip |-> slot.AmtTip, FOHCount |-> staff.FOH, BOHCount |-> staff.BOH,
        ExecCount |-> staff.EXEC, FOHTipPool |-> pools.foh,
        BOHTipPool |-> pools.boh, TotalStaff |-> totalStaff]

computeTipPoolsDayFallback(slots, staffs) ==
    [i \in DOMAIN slots |-> TipPoolOfDayFallback(slots[i], staffs)]

FallbackInit ==
    /\ pc = "compute_pools_fallback"
    /\ tipsBySlot \in TipLists
    /\ \E K \in SUBSET StaffMapKeys : staffMap \in [K -> StaffCounts]
    /\ tipPools = <<>>
    /\ intervals = <<>> /\ bohPctOverride = Null
    /\ individualTipShares = <<>> /\ unallocatedTips = <<>>
    /\ redistribution = <<>> /\ finalTotals = <<>> /\ written = {}
    /\ outcome = "running"
    /\ ExpandIdle
    /\ TxnIdle
    /\ OtherIdle

fallbackFrame == <<tipsBySlot, staffMap, intervals, bohPctOverride,
                   individualTipShares, redistribution, finalTotals, written,
                   outcome, expandVars, txnVars, otherVars>>

FbComputeTipPools ==
    /\ pc = "compute_pools_fallback"
    /\ tipPools' = computeTipPoolsDayFallback(tipsBySlot, staffMap)
    /\ pc' = "identify_unallocated_fallback"
    /\ UNCHANGED <<fallbackFrame, unallocatedTips>>

FbIdentifyUnallocatedTips ==
    /\ pc = "identify_unallocated_fallback"
    /\ unallocatedTips' = identifyUnallocatedTips(tipPools)
    /\ pc' = "fallback_returned"
    /\ UNCHANGED <<fallbackFrame, tipPools>>

FallbackNext ==
    \/ FbComputeTipPools
    \/ FbIdentifyUnallocatedTips

SpecFallback == FallbackInit /\ [][FallbackNext]_vars

\* the UnallocatedTip emitted for the slot of a pool record, 0 if none
UnallocatedTipOfSlot(r) ==
    SumSeq([i \in DOMAIN unallocatedTips |->
              IF SlotKey(unallocatedTips[i]) = SlotKey(r)
              THEN unallocatedTips[i].UnallocatedTip ELSE 0])

\* C24: with the day-level fallback, for every tip pool record FOHTipPool +
\* BOHTipPool + the UnallocatedTip emitted for its slot (0 if none) equals
\* the slot's AmtTip, slots without FOH/BOH staff of their own on a staffed
\* date included
C24_SlotAccounting ==
    pc = "fallback_returned" =>
        \A i \in DOMAIN tipPools :
            Abs(tipPools[i].FOHTipPool + tipPools[i].BOHTipPool
                  + UnallocatedTipOfSlot(tipPools[i]) - tipPools[i].AmtTip) < Tolerance

\* the same for the records that have staff of their own or no staff that day
C24_HoldsWithoutDayFallback ==
    pc = "fallback_returned" =>
        \A i \in DOMAIN tipPools :
            (tipPools[i].TotalStaff > 0
                 \/ tipPools[i].FOHTipPool + tipPools[i].BOHTipPool = 0) =>
                Abs(tipPools[i].FOHTipPool + tipPools[i].BOHTipPool
                      + UnallocatedTipOfSlot(tipPools[i]) - tipPools[i].AmtTip) < Tolerance

----------------------------------------------------------------------------
(* clockData.js: processClockData, called on its own *)

MaxRawRows == 2

\* parseFloat of a field written as digits, optionally a point and digits:
\* the value in hundredths (two decimals are kept), null for NaN
parseFloat(text) ==
    LET whole == DigitsPrefix(text)
        rest == SubSeq(text, Len(whole) + 1, Len(text))
        decimals == IF rest # <<>> /\ Head(rest) = "." THEN DigitsPrefix(Tail(rest))
                    ELSE <<>>
        two == SubSeq(decimals \o <<"0", "0">>, 1, 2)
    IN IF whole = <<>> /\ decimals = <<>> THEN Null
       ELSE Some(DecimalValue(whole) * 100 + DecimalValue(two))

\* parseDateTime(dateStr, timeStr) of fields holding a day and a time of day
parseDateTime(day, minute) == day * 1440 + minute

\* one row of the CSV to its shift record
ProcessedRow(row) ==
    LET timeIn == parseDateTime(row.DateIn, row.TimeIn)
        parsedOut ==
            IF row.TimeOut # <<>> /\ row.TimeOut # <<"-">>
            THEN Some(parseDateTime(row.DateOut, row.TimeOutMinute))
            ELSE Null
        hours == parseFloat(row.TotalLessBreak)
        timeOut ==
            IF parsedOut = Null /\ row.TotalLessBreak # <<>>
            THEN Some(addMinutes(timeIn, (hours[1] * 60) \div 100))
            ELSE parsedOut
    IN [Employee |-> row.FirstName \o <<" ">> \o row.LastName,
        Department |-> row.Department,
        Date |-> DateStrings[row.DateIn + 1],
        TimeIn |-> timeIn,
        TimeOut |-> timeOut]

processClockData(rows) == [i \in DOMAIN rows |-> ProcessedRow(rows[i])]

\* the 'Time Out' field: a time 90 minutes after the clock-in (over midnight
\* for the late clock-in), empty, or the sentinel
RawTimeOuts == {<<"t">>, <<>>, <<"-">>}

\* 'Total Less Break' in hours: empty, 0.00, 0.50, 8
RawTotals ==
    {<<>>, <<"0", ".", "0", "0">>, <<"0", ".", "5", "0">>, <<"8">>}

RawTimesIn == {10 * 60, 23 * 60}

RawRow(minuteIn, out, total) ==
    [FirstName |-> <<"J","o">>, LastName |-> <<"D","o","e">>,
     Department |-> "Front of House",
     DateIn |-> 0, TimeIn |-> minuteIn,
     DateOut |-> (minuteIn + 90) \div 1440,
     TimeOut |-> out, TimeOutMinute |-> (minuteIn + 90) % 1440,
     TotalLessBreak |-> total]

RawRowLists(n) ==
    { [k \in 1..n |-> RawRow(f[k][1], f[k][2], f[k][3])] :
        f \in [1..n -> RawTimesIn \X RawTimeOuts \X RawTotals] }

ClockInit ==
    /\ pc = "call_processClockData"
    /\ \E n \in 0..MaxRawRows : clockData \in RawRowLists(n)
    /\ cleanedClock = <<>>
    /\ dtIn = Null /\ floored = Null /\ dateArg = Null /\ round = 0
    /\ employeeArg = Null /\ categories = Null
    /\ tipsBySlot = <<>>
    /\ PipelineIdle
    /\ intervalArg = Null /\ call = 0 /\ intervalMinutes = Null /\ rowIdx = 0
    /\ slotStart = Null /\ expanded = <<>> /\ firstResult = <<>>
    /\ TxnIdle
    /\ ConfigIdle
    /\ NewVersionIdle

CallProcessClockData ==
    /\ pc = "call_processClockData"
    /\ cleanedClock' = processClockData(clockData)
    /\ pc' = "returned"
    /\ UNCHANGED <<tipsBySlot, pipelineVars, intervalArg, call, intervalMinutes,
                   rowIdx, slotStart, expanded, firstResult, txnVars, otherVars>>

ClockNext == CallProcessClockData

SpecClock == ClockInit /\ [][ClockNext]_vars

TimeOutGiven(row) == row.TimeOut # <<>> /\ row.TimeOut # <<"-">>

\* C25: every record processClockData returns has a TimeOut, later than its
\* TimeIn; for an empty or '-' Time Out field it is TimeIn plus Total Less
\* Break hours * 60 minutes, otherwise the parsed Date Out / Time Out
C25_ShiftRecordInvariant ==
    pc = "returned" =>
        /\ Len(cleanedClock) = Len(clockData)
        /\ \A i \in DOMAIN cleanedClock :
              LET rec == cleanedClock[i]
                  row == clockData[i]
              IN /\ rec.TimeOut # Null
                 /\ rec.TimeOut[1] > rec.TimeIn
                 /\ TimeOutGiven(row) =>
                       rec.TimeOut[1] = row.DateOut * 1440 + row.TimeOutMinute
                 /\ ~TimeOutGiven(row) =>
                       \E hundredths \in 0..2400 :
                          /\ parseFloat(row.TotalLessBreak) = Some(hundredths)
                          /\ rec.TimeOut[1] * 100 = rec.TimeIn * 100 + hundredths * 60

\* the same for rows whose Time Out is given or whose Total Less Break is
\* more than zero
C25_HoldsForPositiveTotals ==
    pc = "returned" =>
        \A i \in DOMAIN cleanedClock :
            LET rec == cleanedClock[i]
                row == clockData[i]
                total == parseFloat(row.TotalLessBreak)
            IN (TimeOutGiven(row) \/ (total # Null /\ total[1] > 0)) =>
                  /\ rec.TimeOut # Null
                  /\ rec.TimeOut[1] > rec.TimeIn
                  /\ TimeOutGiven(row) =>
                        rec.TimeOut[1] = row.DateOut * 1440 + row.TimeOutMinute
                  /\ ~TimeOutGiven(row) =>
                        rec.TimeOut[1] * 100 = rec.TimeIn * 100 + total[1] * 60

----------------------------------------------------------------------------
(* The modular pipeline with grid-floored intervals: the join of transaction *)
(* slots and shift intervals on (Date, TimeSlotStart)                        *)

MaxJoinRows == 2

\* an FOH and a BOH employee
JoinEmployees == <<Roster[1], Roster[3]>>

\* <<TimeIn, TimeOut>>: a short day shift and a shift from 22:00 to 01:30 of
\* the next date
JoinShifts == << <<10 * 60 + 7, 10 * 60 + 27>>, <<22 * 60, 1440 + 90>> >>

JoinShiftRow(who, shift) ==
    [Employee |-> JoinEmployees[who].Employee,
     Department |-> JoinEmployees[who].Department,
     Date |-> DateStrings[(JoinShifts[shift][1] \div 1440) + 1],
     TimeIn |-> JoinShifts[shift][1],
     TimeOut |-> Some(JoinShifts[shift][2])]

JoinShiftLists(n) ==
    { [k \in 1..n |-> JoinShiftRow(f[k][1], f[k][2])] :
        f \in [1..n -> (DOMAIN JoinEmployees) \X (DOMAIN JoinShifts)] }

\* <<TransDateTime, Approved>>
JoinTxnChoices ==
    { <<10 * 60 + 10, Some(<<"y","e","s">>)>>, <<23 * 60, Some(<<"Y","e","s">>)>>,
      <<1440 + 30, Some(<<"y","e","s">>)>>, <<10 * 60 + 10, Some(<<"N","o">>)>> }

JoinTxnLists(n) ==
    { [k \in 1..n |-> TransactionRow(k, f[k][1], f[k][2])] :
        f \in [1..n -> JoinTxnChoices] }

JoinInit ==
    /\ pc = "step1"
    /\ \E n \in 0..MaxJoinRows : cleanedClock \in JoinShiftLists(n)
    /\ \E n \in 0..MaxJoinRows : transactions \in JoinTxnLists(n)
    /\ convertTz \in BOOLEAN
    /\ intervalMinutes \in {Some(15), Some(30)}
    /\ intervals = <<>> /\ tipsBySlot = <<>> /\ staffMap = <<>>
    /\ bohPctOverride = Null /\ tipPools = <<>>
    /\ individualTipShares = <<>> /\ unallocatedTips = <<>>
    /\ redistribution = <<>> /\ finalTotals = <<>> /\ written = {}
    /\ outcome = "running"
    /\ intervalArg = Null /\ call = 0 /\ rowIdx = 0 /\ slotStart = Null
    /\ expanded = <<>> /\ firstResult = <<>>
    /\ OtherIdle

joinFrame == <<bohPctOverride, tipPools, individualTipShares, unallocatedTips,
               redistribution, finalTotals, written, outcome, expandVars,
               txnVars, otherVars>>

\* index.js Step 1
JoinStep1Expand ==
    /\ pc = "step1"
    /\ intervals' = expandToIntervals(cleanedClock, Num(intervalMinutes[1]))
    /\ pc' = "step2"
    /\ UNCHANGED <<joinFrame, tipsBySlot, staffMap>>

\* index.js Step 2
JoinStep2ProcessTransactions ==
    /\ pc = "step2"
    /\ tipsBySlot' = processTransactions(transactions, intervalMinutes[1], convertTz)
    /\ pc' = "step3"
    /\ UNCHANGED <<joinFrame, intervals, staffMap>>

\* index.js Step 3
JoinStep3CountStaff ==
    /\ pc = "step3"
    /\ staffMap' = countStaffPerSlot(intervals)
    /\ pc' = "joined"
    /\ UNCHANGED <<joinFrame, intervals, tipsBySlot>>

JoinNext ==
    \/ JoinStep1Expand
    \/ JoinStep2ProcessTransactions
    \/ JoinStep3CountStaff

SpecJoin == JoinInit /\ [][JoinNext]_vars

\* the time of a transaction as processTransactions takes it
TimeTaken(txn) ==
    IF convertTz THEN convertTimezone(txn.TransDateTime) ELSE txn.TransDateTime

OnDuty(row, txn) ==
    /\ categorizeEmployee(row) \in {"FOH", "BOH"}
    /\ row.TimeIn <= TimeTaken(txn)
    /\ TimeTaken(txn) < row.TimeOut[1]

JoinedWith(row, txn) ==
    LET key == SlotKey(ApprovedTxn(txn, intervalMinutes[1], convertTz))
    IN /\ \E j \in DOMAIN intervals :
             intervals[j].Employee = row.Employee /\ SlotKey(intervals[j]) = key
       /\ key \in DOMAIN staffMap
       /\ staffMap[key].FOH + staffMap[key].BOH > 0

\* C27: for every approved transaction and every FOH or BOH shift with
\* clockIn <= t < clockOut, the (Date, TimeSlotStart) key processTransactions
\* gives the transaction is the key of an interval expandToIntervals emits
\* for the shift, and countStaffPerSlot counts staff for it; shifts running
\* past midnight included
C27_OnDutyStaffJoined ==
    pc = "joined" =>
        \A r \in DOMAIN cleanedClock : \A t \in DOMAIN transactions :
            (IsApproved(transactions[t]) /\ OnDuty(cleanedClock[r], transactions[t])) =>
                JoinedWith(cleanedClock[r], transactions[t])

\* the same for transactions on the date the shift began
C27_HoldsOnClockInDate ==
    pc = "joined" =>
        \A r \in DOMAIN cleanedClock : \A t \in DOMAIN transactions :
            (/\ IsApproved(transactions[t])
             /\ OnDuty(cleanedClock[r], transactions[t])
             /\ TimeTaken(transactions[t]) \div 1440 = cleanedClock[r].TimeIn \div 1440) =>
                JoinedWith(cleanedClock[r], transactions[t])

C27_OnDutySameDateReached ==
    /\ pc = "joined"
    /\ \E r \in DOMAIN cleanedClock : \E t \in DOMAIN transactions :
          /\ IsApproved(transactions[t])
          /\ OnDuty(cleanedClock[r], transactions[t])
          /\ TimeTaken(transactions[t]) \div 1440 = cleanedClock[r].TimeIn \div 1440

----------------------------------------------------------------------------
(* The classifier embedded in src/tipAllocation.js, beside the one of        *)
(* employeeClassification.js                                                 *)

categorizeEmployeeEmbedded(employee) ==
    IF /\ employee.Employee # <<>>
       /\ \/ includes(employee.Employee, <<"C","E","O">>)
          \/ includes(employee.Employee, <<"C","O","O">>)
          \/ includes(employee.Employee,
               <<"C","h","i","e","f"," ","O","p","e","r","a","t","i","o","n","s",
                 " ","O","f","f","i","c","e","r">>)
          \/ MatchesCSuite(employee.Employee)
    THEN "EXEC"
    ELSE LET dept == toLowerCase(employee.Department) IN
         IF includes(dept, <<"f","r","o","n","t">>) THEN "FOH"
         ELSE IF includes(dept, <<"b","a","c","k">>) THEN "BOH"
         ELSE IF dept = <<"m","a","n","a","g","e","m","e","n","t">> THEN "FOH"
         ELSE "BOH"

ClassifyTitles ==
    { <<>>, <<"A","l">>, <<"C","y"," ","C","F","O">>, <<"A","n","n"," ","C","E","O">>,
      <<"C","O","O"," ","B","o","b">>, <<"A","C","F","O">>, <<"C","t","o">>,
      <<"C","h","i","e","f"," ","O","p","e","r","a","t","i","o","n","s",
        " ","O","f","f","i","c","e","r">> }

ClassifyDepartments ==
    { <<>>, <<"F","r","o","n","t"," ","o","f"," ","H","o","u","s","e">>,
      <<"B","a","c","k"," ","o","f"," ","H","o","u","s","e">>, <<"B","O","H">>,
      <<"B","a","r">>, <<"K","i","t","c","h","e","n">>,
      <<"M","a","n","a","g","e","m","e","n","t">>,
      <<"G","e","n","e","r","a","l"," ","M","a","n","a","g","e","r">>,
      <<"E","x","e","c","u","t","i","v","e">>,
      <<"F","R","O","N","T"," ","D","E","S","K">>,
      <<"B","a","c","k"," ","O","f","f","i","c","e">> }

ClassifyInit ==
    /\ pc = "call_categorizeEmployee"
    /\ employeeArg \in {Some([Employee |-> t, Department |-> d]) :
                          t \in ClassifyTitles, d \in ClassifyDepartments}
    /\ categories = Null
    /\ dtIn = Null /\ floored = Null /\ dateArg = Null /\ round = 0
    /\ clockData = <<>>
    /\ tipsBySlot = <<>>
    /\ PipelineIdle
    /\ ExpandIdle
    /\ TxnIdle
    /\ ConfigIdle
    /\ NewVersionIdle

CallCategorizeEmployee ==
    /\ pc = "call_categorizeEmployee"
    /\ categories' = Some([embedded |-> categorizeEmployeeEmbedded(employeeArg[1]),
                           module |-> categorizeEmployee(employeeArg[1])])
    /\ pc' = "returned"
    /\ UNCHANGED <<tipsBySlot, pipelineVars, expandVars, txnVars, configVars,
                   newVersionVars, dtIn, floored, dateArg, round, clockData,
                   employeeArg>>

ClassifyNext == CallCategorizeEmployee

SpecClassify == ClassifyInit /\ [][ClassifyNext]_vars

\* no rule of employeeClassification.categorizeDepartment names the department
MatchesNoRule(department) ==
    LET deptLower == toLowerCase(department)
    IN \A word \in { <<"b","o","h">>,
                     <<"b","a","c","k"," ","o","f"," ","h","o","u","s","e">>,
                     <<"e","x","e","c">>, <<"m","a","n","a","g","e","r">>,
                     <<"m","a","n","a","g","e","m","e","n","t">>, <<"g","m">>,
                     <<"f","r","o","n","t">> } : ~includes(deptLower, word)

\* C29: on every (employee title, department) the classifier of
\* src/tipAllocation.js returns what employeeClassification.categorizeEmployee
\* returns: EXEC for an executive title whatever the department, and FOH by
\* both for a department that matches no rule
C29_ClassifiersAgree ==
    pc = "returned" =>
        /\ categories[1].embedded = categories[1].module
        /\ categorizeByTitle(employeeArg[1].Employee) = "EXEC" =>
              categories[1].embedded = "EXEC" /\ categories[1].module = "EXEC"
        /\ (categorizeByTitle(employeeArg[1].Employee) # "EXEC"
              /\ MatchesNoRule(employeeArg[1].Department)) =>
              categories[1].embedded = "FOH" /\ categories[1].module = "FOH"

\* the two agree on executive titles and on departments naming the front or
\* the back of house
C29_AgreeOnTitlesAndHouse ==
    pc = "returned" =>
        LET deptLower == toLowerCase(employeeArg[1].Department)
        IN (\/ categorizeByTitle(employeeArg[1].Employee) = "EXEC"
            \/ includes(deptLower, <<"f","r","o","n","t"," ","o","f">>)
            \/ includes(deptLower, <<"b","a","c","k"," ","o","f"," ","h","o","u","s","e">>)
            \/ deptLower = <<"b","o","h">>) =>
                categories[1].embedded = categories[1].module

----------------------------------------------------------------------------
(* cli_newVersion.js: presence from the merged clock data, beside presence   *)
(* from the shift records as they were read                                  *)

MaxPresenceRows == 2

\* <<employee, day>>: a front-of-house and a back-of-house employee
PresenceGroups == << <<1, 0>>, <<2, 0>>, <<1, 1>> >>

\* <<TimeIn, TimeOut>> in minutes of the day: one minute between the first
\* two, two minutes between the first and the third, a range inside the first
PresenceRanges == << <<600, 610>>, <<611, 620>>, <<612, 630>>, <<604, 607>> >>

PresenceSizes == {2, 7, 15}

PresenceRowOf(g, r) ==
    LET who == NvEmployees[PresenceGroups[g][1]]
        day == PresenceGroups[g][2]
    IN [Employee |-> who.Employee, Department |-> who.Department,
        Date |-> DateStrings[day + 1],
        TimeIn |-> day * 1440 + PresenceRanges[r][1],
        TimeOut |-> day * 1440 + PresenceRanges[r][2]]

PresenceRowLists(n) ==
    { [i \in 1..n |-> PresenceRowOf(f[i][1], f[i][2])] :
        f \in [1..n -> (DOMAIN PresenceGroups) \X (DOMAIN PresenceRanges)] }

PresenceInit ==
    /\ pc = "presence_merge"
    /\ \E n \in 1..MaxPresenceRows : cleanedClock \in PresenceRowLists(n)
    /\ intervalMinutes \in {Some(m) : m \in PresenceSizes}
    /\ NewVersionIdle
    /\ tipsBySlot = <<>>
    /\ PipelineIdle
    /\ intervalArg = Null /\ call = 0 /\ rowIdx = 0
    /\ slotStart = Null /\ expanded = <<>> /\ firstResult = <<>>
    /\ TxnIdle
    /\ ConfigIdle
    /\ UnitIdle

presenceFrame == <<tipsBySlot, pipelineVars, expandVars, txnVars, configVars,
                   unitVars, intervalTipSummary, allocations, orphaned>>

PresenceMergeClock ==
    /\ pc = "presence_merge"
    /\ mergedClockData' = groupAndMergeClockData(cleanedClock)
    /\ pc' = "presence_intervals"
    /\ UNCHANGED <<presenceFrame, fullDayIntervals, intervalPresence>>

PresenceDayIntervals ==
    /\ pc = "presence_intervals"
    /\ LET distinctDates == Dedup(MapSeq(cleanedClock, LAMBDA emp : emp.Date))
       IN fullDayIntervals' =
              ConcatAll([d \in DOMAIN distinctDates |->
                            generateDayIntervals(distinctDates[d], intervalMinutes[1])])
    /\ pc' = "presence_step2"
    /\ UNCHANGED <<presenceFrame, mergedClockData, intervalPresence>>

PresenceStep2 ==
    /\ pc = "presence_step2"
    /\ intervalPresence' =
          generateIntervalEmployeePresence(fullDayIntervals, mergedClockData)
    /\ pc' = "presence_done"
    /\ UNCHANGED <<presenceFrame, mergedClockData, fullDayIntervals>>

PresenceNext == PresenceMergeClock \/ PresenceDayIntervals \/ PresenceStep2

SpecPresence == PresenceInit /\ [][PresenceNext]_vars

\* C28: for interval sizes of at least 2 minutes the FOH and BOH employee sets
\* (and counts) of every interval computed from the output of
\* groupAndMergeClockData are those computed from the unmerged shift records
C28_MergeKeepsPresence ==
    pc = "presence_done" =>
        LET unmerged == generateIntervalEmployeePresence(fullDayIntervals, cleanedClock)
        IN \A i \in DOMAIN fullDayIntervals :
              /\ ToSet(intervalPresence[i].FOHEmployees) = ToSet(unmerged[i].FOHEmployees)
              /\ ToSet(intervalPresence[i].BOHEmployees) = ToSet(unmerged[i].BOHEmployees)
              /\ intervalPresence[i].FOHCount = unmerged[i].FOHCount
              /\ intervalPresence[i].BOHCount = unmerged[i].BOHCount

\* two ranges of one employee and date one minute apart were merged into one,
\* the interval size is 2 and the employee is present in the interval that
\* holds the minute between them
C28_Witness ==
    /\ pc = "presence_done"
    /\ intervalMinutes = Some(2)
    /\ Len(mergedClockData) < Len(cleanedClock)
    /\ \E a, b \in DOMAIN cleanedClock :
          /\ GroupKey(cleanedClock[a]) = GroupKey(cleanedClock[b])
          /\ cleanedClock[b].TimeIn = cleanedClock[a].TimeOut + 1
          /\ \E m \in DOMAIN mergedClockData :
                /\ mergedClockData[m].TimeIn = cleanedClock[a].TimeIn
                /\ mergedClockData[m].TimeOut = cleanedClock[b].TimeOut
          /\ \E i \in DOMAIN intervalPresence :
                /\ intervalPresence[i].TimeSlotStart = cleanedClock[a].TimeOut
                /\ cleanedClock[a].Employee \in
                      ToSet(intervalPresence[i].FOHEmployees)
                         \cup ToSet(intervalPresence[i].BOHEmployees)

----------------------------------------------------------------------------
(* cli_newVersion.js: every transaction tip reaches the tip summary and the  *)
(* totals                                                                    *)

PassedDateRangeCheck ==
    pc \in {"step1", "step2", "step3", "step5", "step6", "sanity_check",
            "daily_summaries", "final_totals", "done"}
        \/ (pc = "thrown" /\ Len(intervalTipSummary) > 0)

TipSummaryBuilt == PassedDateRangeCheck /\ pc # "step1"

InTipSummary(slot) ==
    \E i \in DOMAIN intervalTipSummary :
        /\ SlotKey(intervalTipSummary[i]) = SlotKey(slot)
        /\ intervalTipSummary[i].TotalTips = slot.AmtTip

\* C30: in every run that passes the date range check each transaction slot's
\* tip is in the interval tip summary, the allocated total equals the
\* transaction total and the run never ends in the sanity check's error; this
\* holds too for transaction dates strictly between the first and the last
\* clock date
C30_NoTipsUnapplied ==
    /\ TipSummaryBuilt =>
          \A t \in DOMAIN tipsBySlot : InTipSummary(tipsBySlot[t])
    /\ TotalsAggregated => ~TotalsDisagree

\* when every transaction date is a clock date, the tips are all in the summary
C30_HoldsOnClockDates ==
    (/\ TipSummaryBuilt
     /\ \A t \in DOMAIN tipsBySlot :
           \E c \in DOMAIN cleanedClock : cleanedClock[c].Date = tipsBySlot[t].Date) =>
        /\ \A t \in DOMAIN tipsBySlot : InTipSummary(tipsBySlot[t])
        /\ TotalsAggregated => ~TotalsDisagree

============================================================================
